---- MODULE Spec2Model ----
(***************************************************************************)
(* The Lynx lexer (src/src/lexer.rs) and token stream                      *)
(* (src/src/token_stream.rs) as a state machine.                           *)
(*                                                                         *)
(* A character is a Unicode scalar value (Rust char), modelled by its    *)
(* code point; Ch("x") is the code point of the character written x.       *)
(* A string is a sequence of characters.                                   *)
(***************************************************************************)
EXTENDS Integers, Sequences, FiniteSets, TLC

(* ----------------------------------------------------------------------- *)
(* Characters                                                              *)
(* ----------------------------------------------------------------------- *)

\* Code points of the characters the model writes by name.
CodeOf ==
    ("\t" :> 9) @@ ("\n" :> 10) @@ ("\r" :> 13) @@ (" " :> 32) @@
    ("!" :> 33) @@ ("\"" :> 34) @@ ("#" :> 35) @@ ("$" :> 36) @@
    ("%" :> 37) @@ ("&" :> 38) @@ ("'" :> 39) @@ ("(" :> 40) @@
    (")" :> 41) @@ ("*" :> 42) @@ ("+" :> 43) @@ ("," :> 44) @@
    ("-" :> 45) @@ ("." :> 46) @@ ("/" :> 47) @@ ("0" :> 48) @@
    ("1" :> 49) @@ ("2" :> 50) @@ ("3" :> 51) @@ ("4" :> 52) @@
    ("5" :> 53) @@ ("6" :> 54) @@ ("7" :> 55) @@ ("8" :> 56) @@
    ("9" :> 57) @@ (":" :> 58) @@ (";" :> 59) @@ ("<" :> 60) @@
    ("=" :> 61) @@ (">" :> 62) @@ ("?" :> 63) @@ ("@" :> 64) @@
    ("A" :> 65) @@ ("B" :> 66) @@ ("C" :> 67) @@ ("D" :> 68) @@
    ("E" :> 69) @@ ("F" :> 70) @@ ("G" :> 71) @@ ("H" :> 72) @@
    ("I" :> 73) @@ ("J" :> 74) @@ ("K" :> 75) @@ ("L" :> 76) @@
    ("M" :> 77) @@ ("N" :> 78) @@ ("O" :> 79) @@ ("P" :> 80) @@
    ("Q" :> 81) @@ ("R" :> 82) @@ ("S" :> 83) @@ ("T" :> 84) @@
    ("U" :> 85) @@ ("V" :> 86) @@ ("W" :> 87) @@ ("X" :> 88) @@
    ("Y" :> 89) @@ ("Z" :> 90) @@ ("[" :> 91) @@ ("\\" :> 92) @@
    ("]" :> 93) @@ ("^" :> 94) @@ ("_" :> 95) @@ ("GRAVE" :> 96) @@
    ("a" :> 97) @@ ("b" :> 98) @@ ("c" :> 99) @@ ("d" :> 100) @@
    ("e" :> 101) @@ ("f" :> 102) @@ ("g" :> 103) @@ ("h" :> 104) @@
    ("i" :> 105) @@ ("j" :> 106) @@ ("k" :> 107) @@ ("l" :> 108) @@
    ("m" :> 109) @@ ("n" :> 110) @@ ("o" :> 111) @@ ("p" :> 112) @@
    ("q" :> 113) @@ ("r" :> 114) @@ ("s" :> 115) @@ ("t" :> 116) @@
    ("u" :> 117) @@ ("v" :> 118) @@ ("w" :> 119) @@ ("x" :> 120) @@
    ("y" :> 121) @@ ("z" :> 122) @@ ("{" :> 123) @@ ("|" :> 124) @@
    ("}" :> 125) @@ ("~" :> 126) @@ ("NUL" :> 0) @@ ("SECTION SIGN" :> 167) @@
    ("ALPHA" :> 945)

Ch(s) == CodeOf[s]

\* Option::None of chars.peek(); no code point is negative.
None == -1

\* char::is_whitespace: the Unicode White_Space property.
is_whitespace(c) ==
    \/ c \in 9..13
    \/ c \in {32, 133, 160, 5760, 8232, 8233, 8239, 8287, 12288}
    \/ c \in 8192..8202

\* char::is_ascii_digit
is_ascii_digit(c) == c \in Ch("0")..Ch("9")

\* char::is_ascii_hexdigit
is_ascii_hexdigit(c) ==
    \/ c \in Ch("0")..Ch("9")
    \/ c \in Ch("A")..Ch("F")
    \/ c \in Ch("a")..Ch("f")

\* char::is_alphabetic, on the Basic Latin, Latin-1 and Greek blocks.
is_alphabetic(c) ==
    \/ c \in Ch("A")..Ch("Z")
    \/ c \in Ch("a")..Ch("z")
    \/ c \in {170, 181, 186}
    \/ c \in (192..255) \ {215, 247}
    \/ c \in (945..969)

\* char::is_alphanumeric, on the same blocks.
is_alphanumeric(c) ==
    \/ is_alphabetic(c)
    \/ is_ascii_digit(c)
    \/ c \in {178, 179, 185, 188, 189, 190}

\* Characters allowed in symbolic names.
SYM_CHARS ==
    { Ch("~"), Ch("GRAVE"), Ch("!"), Ch("@"), Ch("#"), Ch("$"), Ch("%"),
      Ch("^"), Ch("&"), Ch("*"), Ch("-"), Ch("+"), Ch("="), Ch("|"),
      Ch("\\"), Ch(":"), Ch("'"), Ch("<"), Ch(","), Ch(">"), Ch("."),
      Ch("?"), Ch("/") }

(* ----------------------------------------------------------------------- *)
(* Positions, spans, tokens, errors                                        *)
(* ----------------------------------------------------------------------- *)

Pos(l, c) == [line |-> l, col |-> c]
Span(s, e) == [start |-> s, end |-> e]
Token(kind, span) == [kind |-> kind, span |-> span]
Error(kind, span) == [kind |-> kind, span |-> span]

Name(s) == [tag |-> "Name", name |-> s]
IntLit(v) == [tag |-> "IntLit", val |-> v]
FloatLit(v) == [tag |-> "FloatLit", fval |-> v]
CharLit(c) == [tag |-> "CharLit", ch |-> c]
StrLit(s) == [tag |-> "StrLit", str |-> s]
UnitLit == [tag |-> "UnitLit"]
Lp == [tag |-> "Lp"]
Rp == [tag |-> "Rp"]
Lb == [tag |-> "Lb"]
Rb == [tag |-> "Rb"]
Lc == [tag |-> "Lc"]
Rc == [tag |-> "Rc"]
Semicolon == [tag |-> "Semicolon"]

(* ----------------------------------------------------------------------- *)
(* Unbounded naturals: little-endian sequences of limbs below 10000,       *)
(* without a most-significant zero limb (zero is the empty sequence).      *)
(* They carry u32 and i64 values, which exceed the integers of TLC.         *)
(* ----------------------------------------------------------------------- *)

RECURSIVE BigMulAdd(_, _, _)
\* v * m + a, for 0 < m and 0 <= a
BigMulAdd(v, m, a) ==
    IF v = <<>>
    THEN IF a = 0 THEN <<>>
         ELSE <<a % 10000>> \o BigMulAdd(<<>>, m, a \div 10000)
    ELSE LET t == v[1] * m + a
         IN  <<t % 10000>> \o BigMulAdd(Tail(v), m, t \div 10000)

RECURSIVE BigLeq(_, _)
\* a <= b
BigLeq(a, b) ==
    IF Len(a) # Len(b) THEN Len(a) < Len(b)
    ELSE IF a = <<>> THEN TRUE
    ELSE IF a[Len(a)] # b[Len(b)] THEN a[Len(a)] < b[Len(b)]
    ELSE BigLeq(SubSeq(a, 1, Len(a) - 1), SubSeq(b, 1, Len(b) - 1))

RECURSIVE BigToInt(_)
\* the value of a small v as an integer
BigToInt(v) == IF v = <<>> THEN 0 ELSE v[1] + 10000 * BigToInt(Tail(v))

\* u32::MAX = 4294967295
U32_MAX == <<7295, 9496, 42>>
\* i64::MAX = 9223372036854775807
I64_MAX == <<5807, 5477, 368, 3372, 922>>
\* char::MAX = 0x10FFFF = 1114111
CHAR_MAX == <<4111, 111>>

\* to_digit, had it known the decimal digits only
to_digit_decimal(c) == c - Ch("0")

\* char::to_digit(16) on an ASCII hex digit
to_digit(c) ==
    IF c \in Ch("0")..Ch("9") THEN c - Ch("0")
    ELSE IF c \in Ch("a")..Ch("f") THEN c - Ch("a") + 10
    ELSE c - Ch("A") + 10

RECURSIVE DigitsValue(_, _, _)
\* the digits of s read in the given base, onto the accumulator acc
DigitsValue(s, base, acc) ==
    IF s = <<>> THEN acc
    ELSE DigitsValue(Tail(s), base, BigMulAdd(acc, base, to_digit(Head(s))))

\* u32::from_str_radix(s, 16) on a string of hex digits:
\* an error on the empty string and on overflow.
u32_from_str_radix(s) ==
    LET v == DigitsValue(s, 16, <<>>)
    IN  IF s = <<>> \/ ~BigLeq(v, U32_MAX)
        THEN [ok |-> FALSE]
        ELSE [ok |-> TRUE, val |-> v]

\* char_from_u32, had it taken the surrogates for characters
char_from_u32_surrogates(v) ==
    IF ~BigLeq(v, CHAR_MAX) THEN [ok |-> FALSE]
    ELSE [ok |-> TRUE, ch |-> BigToInt(v)]

\* char::from_u32: None on a surrogate and above char::MAX.
char_from_u32(v) ==
    IF ~BigLeq(v, CHAR_MAX) THEN [ok |-> FALSE]
    ELSE LET n == BigToInt(v)
         IN  IF n \in 55296..57343 THEN [ok |-> FALSE]
             ELSE [ok |-> TRUE, ch |-> n]

\* i64_from_str_radix, had it not looked for the overflow
i64_from_str_radix_unchecked(s, base) ==
    IF s = <<>> THEN [ok |-> FALSE]
    ELSE [ok |-> TRUE, val |-> DigitsValue(s, base, <<>>)]

\* i64::from_str_radix(s, base) on a string of digits valid for the base:
\* an error on the empty string and on overflow.
i64_from_str_radix(s, base) ==
    LET v == DigitsValue(s, base, <<>>)
    IN  IF s = <<>> \/ ~BigLeq(v, I64_MAX)
        THEN [ok |-> FALSE]
        ELSE [ok |-> TRUE, val |-> v]

RECURSIVE StripTrailingZeros(_)
StripTrailingZeros(s) ==
    IF s # <<>> /\ s[Len(s)] = Ch("0")
    THEN StripTrailingZeros(SubSeq(s, 1, Len(s) - 1))
    ELSE s

\* str::parse::<f64> on digits with one decimal point: the decimal value,
\* as its integer part and its fraction digits (exact, without the rounding
\* of f64, which the literals of the model do not reach).
parse_f64(s) ==
    LET dot  == CHOOSE i \in 1..Len(s) : s[i] = Ch(".")
        ip   == SubSeq(s, 1, dot - 1)
        fp   == SubSeq(s, dot + 1, Len(s))
    IN  [ok |-> TRUE,
         val |-> [int |-> DigitsValue(ip, 10, <<>>),
                  frac |-> StripTrailingZeros(fp)]]

(* ----------------------------------------------------------------------- *)
(* TokenStream: a vector of tokens with a position                         *)
(* ----------------------------------------------------------------------- *)

\* A usize is written as the integer of its two's complement reading:
\* 0, 1, 2, ... are themselves and -1, -2, ... are 2^64 - 1, 2^64 - 2, ...
USIZE_MAX == -1

\* a + b of two usize is beyond usize::MAX
add_overflows(a, b) ==
    \/ a < 0 /\ b < 0
    \/ (a < 0 \/ b < 0) /\ a + b >= 0

\* a.wrapping_add(b), a + b modulo 2^64
wrapping_add(a, b) == a + b

\* Option<&Token>
Some(tok) == [tag |-> "Some", val |-> tok]
NoToken == [tag |-> "None"]

\* Result<&Token, Error>
ExpectOk(tok) == [tag |-> "Ok", val |-> tok]
ExpectErr(err) == [tag |-> "Err", err |-> err]

\* the addition of two usize has overflowed: a build with overflow checks
\* panics
Panic == [tag |-> "Panic"]

\* Vec::get(i)
Vec_get(buffer, i) ==
    IF i >= 0 /\ i < Len(buffer) THEN Some(buffer[i + 1]) ELSE NoToken

\* TokenStream::new
TokenStream_new(toks) == [buffer |-> toks, pos |-> 0]

\* TokenStream::peek; checks: the build has overflow checks
TokenStream_peek(s, n, checks) ==
    IF add_overflows(s.pos, n) /\ checks THEN Panic
    ELSE Vec_get(s.buffer, wrapping_add(s.pos, n))

\* TokenStream::next: the stream after the call and what the call returned
TokenStream_next(s) ==
    IF s.pos < Len(s.buffer)
    THEN [stream |-> [s EXCEPT !.pos = @ + 1],
          ret |-> Some(s.buffer[s.pos + 1])]
    ELSE [stream |-> s, ret |-> NoToken]

\* the predicates given to expect: pred(tok)
Holds(pred, tok) ==
    CASE pred = "is_lp" -> tok.kind = Lp
      [] pred = "is_name" -> tok.kind.tag = "Name"
      [] pred = "any" -> TRUE
      [] pred = "none" -> FALSE

\* TokenStream::expect, had it left a token that pred rejects in the stream
TokenStream_expect_keeping(s, pred, err) ==
    LET r == TokenStream_next(s)
    IN  IF r.ret.tag = "Some" /\ Holds(pred, r.ret.val)
        THEN [stream |-> r.stream, ret |-> ExpectOk(r.ret.val)]
        ELSE [stream |-> s, ret |-> ExpectErr(err)]

\* TokenStream::expect: the stream after the call and what the call returned
TokenStream_expect(s, pred, err) ==
    LET r == TokenStream_next(s)
    IN  [stream |-> r.stream,
         ret |-> IF r.ret.tag = "Some" /\ Holds(pred, r.ret.val)
                 THEN ExpectOk(r.ret.val)
                 ELSE ExpectErr(err)]

\* no call on the stream yet
NoCall == [op |-> "none"]

(* ----------------------------------------------------------------------- *)
(* LineLexer: the lexer of a single line                                   *)
(* ----------------------------------------------------------------------- *)

EmptyCharLit == "EmptyCharLit"
MultipleCharsInCharLit == "MultipleCharsInCharLit"
UnterminatedCharOrStrLit == "UnterminatedCharOrStrLit"
UnknownEscapeSeq == "UnknownEscapeSeq"
InvalidNumLitFormat == "InvalidNumLitFormat"
UnexpectedChar == "UnexpectedChar"

\* Result::Ok / Result::Err of a lexing routine, with the lexer it leaves.
Ok(lx, v) == [ok |-> TRUE, lx |-> lx, val |-> v]
Err(lx, e) == [ok |-> FALSE, lx |-> lx, err |-> e]

\* LineLexer::new
LineLexer_new(line_str, line_no) ==
    [chars |-> line_str, line_no |-> line_no, col_no |-> 0]

\* chars.peek()
peek(lx) == IF lx.chars = <<>> THEN None ELSE Head(lx.chars)

\* chars.clone().nth(1): the second lookahead, on a clone of the cursor
nth1(lx) == IF Len(lx.chars) >= 2 THEN lx.chars[2] ELSE None

\* LineLexer::advance: col_no += 1; chars.next() (a no-op on an exhausted
\* iterator, while the column is still incremented)
advance(lx) ==
    [lx EXCEPT !.col_no = @ + 1,
               !.chars = IF @ = <<>> THEN <<>> ELSE Tail(@)]

\* LineLexer::pos
pos(lx) == Pos(lx.line_no, lx.col_no)

RECURSIVE skip_ws_spaces(_)
\* skip_ws, had it skipped the space character only
skip_ws_spaces(lx) ==
    IF peek(lx) = Ch(" ") THEN skip_ws_spaces(advance(lx)) ELSE lx

RECURSIVE skip_ws(_)
\* LineLexer::skip_ws
skip_ws(lx) ==
    IF peek(lx) # None /\ is_whitespace(peek(lx))
    THEN skip_ws(advance(lx))
    ELSE lx

RECURSIVE skip_line(_)
\* LineLexer::skip_line
skip_line(lx) ==
    IF peek(lx) # None THEN skip_line(advance(lx)) ELSE lx

RECURSIVE esc_hex_loop(_, _, _, _)
\* the loop of handle_esc_seq that collects the hex digits of \u{...}
esc_hex_loop(lx, hex_str, lit_start_pos, esc_start_pos) ==
    LET c == peek(lx)
    IN  IF c = Ch("}") THEN Ok(advance(lx), hex_str)
        ELSE IF c # None /\ is_ascii_hexdigit(c)
        THEN esc_hex_loop(advance(lx), Append(hex_str, c),
                          lit_start_pos, esc_start_pos)
        ELSE IF c # None
        THEN LET l1 == advance(lx)
             IN  Err(l1, Error(UnknownEscapeSeq, Span(esc_start_pos, pos(l1))))
        ELSE Err(lx, Error(UnterminatedCharOrStrLit,
                           Span(lit_start_pos, pos(lx))))

\* the Some('u') arm of handle_esc_seq, entered with u as the lookahead
esc_unicode(l1, lit_start_pos, esc_start_pos) ==
    LET l2 == advance(l1)
    IN  IF peek(l2) # Ch("{")
        THEN LET l3 == advance(l2)
             IN  Err(l3, Error(UnknownEscapeSeq, Span(esc_start_pos, pos(l3))))
        ELSE LET h == esc_hex_loop(advance(l2), <<>>,
                                   lit_start_pos, esc_start_pos)
             IN  IF ~h.ok THEN h
                 ELSE LET code_point == u32_from_str_radix(h.val)
                          bad == Err(h.lx, Error(UnknownEscapeSeq,
                                           Span(esc_start_pos, pos(h.lx))))
                      IN  IF ~code_point.ok THEN bad
                          ELSE LET ch == char_from_u32(code_point.val)
                               IN  IF ~ch.ok THEN bad
                                   ELSE Ok(h.lx, ch.ch)

\* LineLexer::handle_esc_seq
handle_esc_seq(lx, lit_start_pos) ==
    LET l1 == advance(lx)
        esc_start_pos == pos(l1)
        c == peek(l1)
    IN  CASE c = Ch("n") -> Ok(advance(l1), Ch("\n"))
          [] c = Ch("r") -> Ok(advance(l1), Ch("\r"))
          [] c = Ch("t") -> Ok(advance(l1), Ch("\t"))
          [] c = Ch("\\") -> Ok(advance(l1), Ch("\\"))
          [] c = Ch("0") -> Ok(advance(l1), Ch("NUL"))
          [] c = Ch("'") -> Ok(advance(l1), Ch("'"))
          [] c = Ch("\"") -> Ok(advance(l1), Ch("\""))
          [] c = Ch("u") -> esc_unicode(l1, lit_start_pos, esc_start_pos)
          [] c = None ->
                Err(l1, Error(UnterminatedCharOrStrLit,
                              Span(lit_start_pos, pos(l1))))
          [] OTHER ->
                LET l2 == advance(l1)
                IN  Err(l2, Error(UnknownEscapeSeq,
                                  Span(esc_start_pos, pos(l2))))

\* the outcome of lex_char_lit at the closing quote, by ch_vec.len()
char_lit_close(lx, start_pos, ch_vec) ==
    CASE Len(ch_vec) = 0 ->
            Err(lx, Error(EmptyCharLit, Span(start_pos, pos(lx))))
      [] Len(ch_vec) = 1 ->
            Ok(lx, Token(CharLit(ch_vec[1]), Span(start_pos, pos(lx))))
      [] OTHER ->
            Err(lx, Error(MultipleCharsInCharLit, Span(start_pos, pos(lx))))

RECURSIVE char_lit_loop(_, _, _)
\* the loop of lex_char_lit
char_lit_loop(lx, start_pos, ch_vec) ==
    LET c == peek(lx)
    IN  IF c = Ch("'") THEN char_lit_close(advance(lx), start_pos, ch_vec)
        ELSE IF c = Ch("\\")
        THEN LET e == handle_esc_seq(lx, start_pos)
             IN  IF ~e.ok THEN e
                 ELSE char_lit_loop(e.lx, start_pos, Append(ch_vec, e.val))
        ELSE IF c # None
        THEN char_lit_loop(advance(lx), start_pos, Append(ch_vec, c))
        ELSE Err(lx, Error(UnterminatedCharOrStrLit,
                           Span(start_pos, pos(lx))))

\* LineLexer::lex_char_lit
lex_char_lit(lx) ==
    LET l1 == advance(lx)
    IN  char_lit_loop(l1, pos(l1), <<>>)

RECURSIVE quoted_str_loop(_, _, _)
\* the loop of lex_quoted_str_lit
quoted_str_loop(lx, start_pos, s) ==
    LET c == peek(lx)
    IN  IF c = Ch("\"")
        THEN LET l1 == advance(lx)
             IN  Ok(l1, Token(StrLit(s), Span(start_pos, pos(l1))))
        ELSE IF c = Ch("\\")
        THEN LET e == handle_esc_seq(lx, start_pos)
             IN  IF ~e.ok THEN e
                 ELSE quoted_str_loop(e.lx, start_pos, Append(s, e.val))
        ELSE IF c # None
        THEN quoted_str_loop(advance(lx), start_pos, Append(s, c))
        ELSE Err(lx, Error(UnterminatedCharOrStrLit,
                           Span(start_pos, pos(lx))))

\* LineLexer::lex_quoted_str_lit
lex_quoted_str_lit(lx) ==
    LET l1 == advance(lx)
    IN  quoted_str_loop(l1, pos(l1), <<>>)

RECURSIVE raw_string_loop(_, _, _)
\* the loop of lex_raw_string_lit
raw_string_loop(lx, start_pos, s) ==
    IF peek(lx) # None
    THEN raw_string_loop(advance(lx), start_pos, Append(s, peek(lx)))
    ELSE Ok(lx, Token(StrLit(s), Span(start_pos, pos(lx))))

\* lex_raw_string_lit, had it trimmed the whitespace before the content
lex_raw_string_lit_trimmed(lx) ==
    LET l1 == advance(lx)
    IN  raw_string_loop(skip_ws(advance(l1)), pos(l1), <<>>)

\* LineLexer::lex_raw_string_lit
lex_raw_string_lit(lx) ==
    LET l1 == advance(lx)
    IN  raw_string_loop(advance(l1), pos(l1), <<>>)

\* LineLexer::is_valid_digit
is_valid_digit(c, base) ==
    CASE base = 2 -> c = Ch("0") \/ c = Ch("1")
      [] base = 8 -> is_ascii_digit(c) /\ c < Ch("8")
      [] base = 10 -> is_ascii_digit(c)
      [] base = 16 -> is_ascii_hexdigit(c)
      [] OTHER -> FALSE

\* num_prefix, had it known no base prefix
num_prefix_decimal(lx, lookahead) ==
    [lx |-> lx, base |-> 10, num_str |-> <<lookahead>>]

\* the base prefix of lex_num_lit, after the first digit is consumed
num_prefix(lx, lookahead) ==
    LET c == peek(lx)
    IN  IF lookahead # Ch("0")
        THEN [lx |-> lx, base |-> 10, num_str |-> <<lookahead>>]
        ELSE IF c \in {Ch("x"), Ch("X")}
        THEN [lx |-> advance(lx), base |-> 16, num_str |-> <<>>]
        ELSE IF c \in {Ch("b"), Ch("B")}
        THEN [lx |-> advance(lx), base |-> 2, num_str |-> <<>>]
        ELSE IF c \in {Ch("o"), Ch("O")}
        THEN [lx |-> advance(lx), base |-> 8, num_str |-> <<>>]
        ELSE [lx |-> lx, base |-> 10, num_str |-> <<lookahead>>]

RECURSIVE num_loop_keeping(_, _, _, _)
\* num_loop, had it pushed the underscores to num_str as zeros
num_loop_keeping(lx, base, num_str, is_float) ==
    LET c == peek(lx)
        out(l) == [lx |-> l, num_str |-> num_str, is_float |-> is_float]
    IN  IF c = None THEN out(lx)
        ELSE IF c = Ch("_")
        THEN num_loop_keeping(advance(lx), base,
                              Append(num_str, Ch("0")), is_float)
        ELSE IF c = Ch(".") /\ base = 10
        THEN IF is_float THEN out(advance(lx))
             ELSE num_loop_keeping(advance(lx), base, Append(num_str, c), TRUE)
        ELSE IF is_valid_digit(c, base)
        THEN num_loop_keeping(advance(lx), base, Append(num_str, c), is_float)
        ELSE out(lx)

RECURSIVE num_loop(_, _, _, _)
\* the digit loop of lex_num_lit
num_loop(lx, base, num_str, is_float) ==
    LET c == peek(lx)
        out(l) == [lx |-> l, num_str |-> num_str, is_float |-> is_float]
    IN  IF c = None THEN out(lx)
        ELSE IF c = Ch("_") THEN num_loop(advance(lx), base, num_str, is_float)
        ELSE IF c = Ch(".") /\ base = 10
        THEN IF is_float THEN out(advance(lx))
             ELSE num_loop(advance(lx), base, Append(num_str, c), TRUE)
        ELSE IF is_valid_digit(c, base)
        THEN num_loop(advance(lx), base, Append(num_str, c), is_float)
        ELSE out(lx)

\* LineLexer::lex_num_lit
lex_num_lit(lx, lookahead) ==
    LET l1 == advance(lx)
        start_pos == pos(l1)
        p == num_prefix(l1, lookahead)
        n == num_loop(p.lx, p.base, p.num_str, FALSE)
        span == Span(start_pos, pos(n.lx))
        num == IF n.is_float THEN parse_f64(n.num_str)
               ELSE i64_from_str_radix(n.num_str, p.base)
    IN  IF ~num.ok THEN Err(n.lx, Error(InvalidNumLitFormat, span))
        ELSE IF n.is_float THEN Ok(n.lx, Token(FloatLit(num.val), span))
        ELSE Ok(n.lx, Token(IntLit(num.val), span))

RECURSIVE alpha_loop_plain(_, _, _)
\* alpha_loop, had it stopped at the apostrophe and the exclamation mark
alpha_loop_plain(lx, start_pos, name) ==
    LET c == peek(lx)
    IN  IF c # None /\ (is_alphanumeric(c) \/ c = Ch("_"))
        THEN alpha_loop_plain(advance(lx), start_pos, Append(name, c))
        ELSE Ok(lx, Token(Name(name), Span(start_pos, pos(lx))))

RECURSIVE alpha_loop(_, _, _)
\* the loop of lex_alpha
alpha_loop(lx, start_pos, name) ==
    LET c == peek(lx)
    IN  IF c # None /\ (is_alphanumeric(c) \/ c = Ch("_")
                        \/ c = Ch("'") \/ c = Ch("!"))
        THEN alpha_loop(advance(lx), start_pos, Append(name, c))
        ELSE Ok(lx, Token(Name(name), Span(start_pos, pos(lx))))

\* LineLexer::lex_alpha
lex_alpha(lx, lookahead) ==
    LET l1 == advance(lx)
    IN  alpha_loop(l1, pos(l1), <<lookahead>>)

RECURSIVE sym_loop_to_pair(_, _, _)
\* sym_loop, had it stopped before two hyphens and before two backslashes
sym_loop_to_pair(lx, start_pos, name) ==
    LET c == peek(lx)
    IN  IF c # None /\ c \in SYM_CHARS
           /\ ~(c \in {Ch("-"), Ch("\\")} /\ nth1(lx) = c)
        THEN sym_loop_to_pair(advance(lx), start_pos, Append(name, c))
        ELSE Ok(lx, Token(Name(name), Span(start_pos, pos(lx))))

RECURSIVE sym_loop(_, _, _)
\* the loop of lex_sym
sym_loop(lx, start_pos, name) ==
    LET c == peek(lx)
    IN  IF c # None /\ c \in SYM_CHARS
        THEN sym_loop(advance(lx), start_pos, Append(name, c))
        ELSE Ok(lx, Token(Name(name), Span(start_pos, pos(lx))))

\* LineLexer::lex_sym
lex_sym(lx, lookahead) ==
    LET l1 == advance(lx)
    IN  sym_loop(l1, pos(l1), <<lookahead>>)

\* lex_lp, had it not looked for the unit literal
lex_lp_no_unit(lx) ==
    LET l1 == advance(lx)
    IN  Ok(l1, Token(Lp, Span(pos(l1), pos(l1))))

\* LineLexer::lex_lp
lex_lp(lx) ==
    LET l1 == advance(lx)
    IN  IF peek(l1) = Ch(")")
        THEN LET start_pos == pos(l1)
                 l2 == advance(l1)
             IN  Ok(l2, Token(UnitLit, Span(start_pos, pos(l2))))
        ELSE Ok(l1, Token(Lp, Span(pos(l1), pos(l1))))

\* lex_single, had it taken the start of the span before advancing
lex_single_early(lx, kind) ==
    LET l1 == advance(lx)
    IN  Ok(l1, Token(kind, Span(pos(lx), pos(l1))))

\* lex_single, had it not advanced
lex_single_stuck(lx, kind) ==
    Ok(lx, Token(kind, Span(pos(lx), pos(lx))))

\* the single-character separators: advance, then a one-position span
lex_single(lx, kind) ==
    LET l1 == advance(lx)
    IN  Ok(l1, Token(kind, Span(pos(l1), pos(l1))))

\* LineLexer::lex_rp
lex_rp(lx) == lex_single(lx, Rp)
\* LineLexer::lex_lb
lex_lb(lx) == lex_single(lx, Lb)
\* LineLexer::lex_rb
lex_rb(lx) == lex_single(lx, Rb)
\* LineLexer::lex_lc
lex_lc(lx) == lex_single(lx, Lc)
\* LineLexer::lex_rc
lex_rc(lx) == lex_single(lx, Rc)
\* LineLexer::lex_semicolon
lex_semicolon(lx) == lex_single(lx, Semicolon)

\* lex_hyphen, had it not looked for the line comment
lex_hyphen_no_comment(lx) ==
    LET t == lex_sym(lx, Ch("-"))
    IN  [some |-> TRUE, lx |-> t.lx, val |-> t.val]

\* lex_hyphen, had it consumed the hyphen to look at the character after it
lex_hyphen_destructive(lx) ==
    LET l1 == advance(lx)
    IN  IF peek(l1) = Ch("-")
        THEN [some |-> FALSE, lx |-> skip_line(l1)]
        ELSE LET t == lex_sym(l1, Ch("-"))
             IN  [some |-> TRUE, lx |-> t.lx, val |-> t.val]

\* LineLexer::lex_hyphen: some = FALSE is Option::None, a line comment
lex_hyphen(lx) ==
    IF nth1(lx) = Ch("-")
    THEN [some |-> FALSE, lx |-> skip_line(lx)]
    ELSE LET t == lex_sym(lx, Ch("-"))
         IN  [some |-> TRUE, lx |-> t.lx, val |-> t.val]

\* LineLexer::lex_backslash
lex_backslash(lx) ==
    IF nth1(lx) = Ch("\\")
    THEN lex_raw_string_lit(lx)
    ELSE lex_sym(lx, Ch("\\"))

\* lex_unknown, had it not advanced
lex_unknown_stuck(lx) ==
    Err(lx, Error(UnexpectedChar, Span(pos(lx), pos(lx))))

\* LineLexer::lex_unknown
lex_unknown(lx) ==
    LET l1 == advance(lx)
    IN  Err(l1, Error(UnexpectedChar, Span(pos(l1), pos(l1))))

\* the arm of the match in LineLexer::tokenize that takes the lookahead c
dispatch(c) ==
    CASE c = Ch("(") -> "lex_lp"
      [] c = Ch(")") -> "lex_rp"
      [] c = Ch("[") -> "lex_lb"
      [] c = Ch("]") -> "lex_rb"
      [] c = Ch("{") -> "lex_lc"
      [] c = Ch("}") -> "lex_rc"
      [] c = Ch(";") -> "lex_semicolon"
      [] c = Ch("-") -> "lex_hyphen"
      [] c = Ch("\\") -> "lex_backslash"
      [] c = Ch("'") -> "lex_char_lit"
      [] c = Ch("\"") -> "lex_quoted_str_lit"
      [] OTHER ->
            IF is_ascii_digit(c) THEN "lex_num_lit"
            ELSE IF is_alphabetic(c) \/ c = Ch("_") THEN "lex_alpha"
            ELSE IF c \in SYM_CHARS THEN "lex_sym"
            ELSE "lex_unknown"

\* what one iteration of the loop of LineLexer::tokenize does
Token_(r) == [tag |-> "token", lx |-> r.lx, val |-> r.val]
Break_(lx) == [tag |-> "break", lx |-> lx]
Error_(r) == [tag |-> "error", lx |-> r.lx, err |-> r.err]
Outcome(r) == IF r.ok THEN Token_(r) ELSE Error_(r)

\* one iteration of the loop of LineLexer::tokenize: skip_ws, then the match
lex_step(lx0) ==
    LET lx == skip_ws(lx0)
        c == peek(lx)
        arm == dispatch(c)
    IN  IF c = None THEN Break_(lx)
        ELSE CASE arm = "lex_lp" -> Outcome(lex_lp(lx))
               [] arm = "lex_rp" -> Outcome(lex_rp(lx))
               [] arm = "lex_lb" -> Outcome(lex_lb(lx))
               [] arm = "lex_rb" -> Outcome(lex_rb(lx))
               [] arm = "lex_lc" -> Outcome(lex_lc(lx))
               [] arm = "lex_rc" -> Outcome(lex_rc(lx))
               [] arm = "lex_semicolon" -> Outcome(lex_semicolon(lx))
               [] arm = "lex_hyphen" ->
                     LET h == lex_hyphen(lx)
                     IN  IF h.some THEN Token_(h) ELSE Break_(h.lx)
               [] arm = "lex_backslash" -> Outcome(lex_backslash(lx))
               [] arm = "lex_char_lit" -> Outcome(lex_char_lit(lx))
               [] arm = "lex_quoted_str_lit" -> Outcome(lex_quoted_str_lit(lx))
               [] arm = "lex_num_lit" -> Outcome(lex_num_lit(lx, c))
               [] arm = "lex_alpha" -> Outcome(lex_alpha(lx, c))
               [] arm = "lex_sym" -> Outcome(lex_sym(lx, c))
               [] OTHER -> Error_(lex_unknown(lx))

RECURSIVE LineLexer_tokenize(_, _)
\* LineLexer::tokenize as a whole: the tokens of the line, or its first error
LineLexer_tokenize(lx, tokens) ==
    LET r == lex_step(lx)
    IN  CASE r.tag = "token" -> LineLexer_tokenize(r.lx, Append(tokens, r.val))
          [] r.tag = "break" -> [ok |-> TRUE, val |-> tokens]
          [] OTHER -> [ok |-> FALSE, err |-> r.err]

(* ----------------------------------------------------------------------- *)
(* tokenize: the source, line by line                                      *)
(* ----------------------------------------------------------------------- *)

\* a trailing carriage return is part of the line terminator \r\n
strip_cr(line) ==
    IF line # <<>> /\ line[Len(line)] = Ch("\r")
    THEN SubSeq(line, 1, Len(line) - 1)
    ELSE line

RECURSIVE split_lines(_, _)
\* str::lines, with cur the part of the current line already read: lines end
\* at \n or \r\n, the terminator is dropped, and no empty last line is made
split_lines(s, cur) ==
    IF s = <<>> THEN IF cur = <<>> THEN <<>> ELSE <<cur>>
    ELSE IF Head(s) = Ch("\n")
    THEN <<strip_cr(cur)>> \o split_lines(Tail(s), <<>>)
    ELSE split_lines(Tail(s), Append(cur, Head(s)))

\* str_lines, had it taken the whole source as one line
str_lines_whole(s) == IF s = <<>> THEN <<>> ELSE <<s>>

\* src.lines()
str_lines(s) == split_lines(s, <<>>)

\* line_no_of, had it numbered the lines from 0
line_no_of_zero_based(line_idx) == line_idx

\* let line_no = line_idx + 1
line_no_of(line_idx) == line_idx + 1

\* extend, had it replaced the tokens instead of appending to them
extend_overwrite(tokens, line_tokens) == line_tokens

\* tokens.extend(line_tokens)
extend(tokens, line_tokens) == tokens \o line_tokens

\* the Result of tokenize
ResultOk(tokens) == [tag |-> "Ok", tokens |-> tokens]
ResultErr(err) == [tag |-> "Err", err |-> err]
NoResult == [tag |-> "Running"]

VARIABLES
    src,          \* the source text given to tokenize
    lines,        \* src.lines(), the physical lines
    line_idx,     \* the number of lines the for loop of tokenize has taken
    lexer,        \* the LineLexer of the current line: chars, line_no, col_no
    line_tokens,  \* the tokens vector of LineLexer::tokenize
    tokens,       \* the tokens vector of tokenize
    pc,           \* "tokenize": at the for loop; "lex": in LineLexer::tokenize
    result,       \* what tokenize returned, once pc = "done"
    stream,       \* a TokenStream: buffer, pos
    ret           \* the last call on the TokenStream and what it returned

lexer_vars == <<src, lines, line_idx, lexer, line_tokens, tokens, pc, result>>
stream_vars == <<stream, ret>>
vars == <<lexer_vars, stream_vars>>

\* entry of tokenize(src)
InitWith(Sources) ==
    /\ src \in Sources
    /\ lines = str_lines(src)
    /\ line_idx = 0
    /\ lexer = LineLexer_new(<<>>, 0)
    /\ line_tokens = <<>>
    /\ tokens = <<>>
    /\ pc = "tokenize"
    /\ result = NoResult
    /\ stream = TokenStream_new(<<>>)
    /\ ret = NoCall

\* tokenize: the for loop takes the next line and makes its LineLexer
NextLine ==
    /\ pc = "tokenize"
    /\ line_idx < Len(lines)
    /\ line_idx' = line_idx + 1
    /\ lexer' = LineLexer_new(lines[line_idx + 1], line_no_of(line_idx))
    /\ line_tokens' = <<>>
    /\ pc' = "lex"
    /\ UNCHANGED <<src, lines, tokens, result>>
    /\ UNCHANGED stream_vars

\* tokenize: no line is left, Ok(tokens)
Return ==
    /\ pc = "tokenize"
    /\ line_idx = Len(lines)
    /\ result' = ResultOk(tokens)
    /\ pc' = "done"
    /\ UNCHANGED <<src, lines, line_idx, lexer, line_tokens, tokens>>
    /\ UNCHANGED stream_vars

\* the effect of one iteration of LineLexer::tokenize on the state:
\* a token is pushed; a break returns Ok(line_tokens) to tokenize, which
\* extends its tokens; an error is returned by both functions (the ? operator)
Iterate(r) ==
    /\ lexer' = r.lx
    /\ CASE r.tag = "token" ->
              /\ line_tokens' = Append(line_tokens, r.val)
              /\ UNCHANGED <<tokens, pc, result>>
         [] r.tag = "break" ->
              /\ tokens' = extend(tokens, line_tokens)
              /\ pc' = "tokenize"
              /\ UNCHANGED <<line_tokens, result>>
         [] OTHER ->
              /\ result' = ResultErr(r.err)
              /\ pc' = "done"
              /\ UNCHANGED <<line_tokens, tokens>>
    /\ UNCHANGED <<src, lines, line_idx>>
    /\ UNCHANGED stream_vars

\* the lookahead of the current iteration, after skip_ws
Lookahead == peek(skip_ws(lexer))

\* the match of the current iteration takes the given arm
Takes(arm) == Lookahead # None /\ dispatch(Lookahead) = arm

\* None => break: the line is exhausted
EndOfLine ==
    /\ pc = "lex"
    /\ Lookahead = None
    /\ Iterate(Break_(skip_ws(lexer)))

\* '(' => self.lex_lp()
LexLp ==
    /\ pc = "lex"
    /\ Takes("lex_lp")
    /\ Iterate(Outcome(lex_lp(skip_ws(lexer))))

\* ')' => self.lex_rp()
LexRp ==
    /\ pc = "lex"
    /\ Takes("lex_rp")
    /\ Iterate(Outcome(lex_rp(skip_ws(lexer))))

\* '[' => self.lex_lb()
LexLb ==
    /\ pc = "lex"
    /\ Takes("lex_lb")
    /\ Iterate(Outcome(lex_lb(skip_ws(lexer))))

\* ']' => self.lex_rb()
LexRb ==
    /\ pc = "lex"
    /\ Takes("lex_rb")
    /\ Iterate(Outcome(lex_rb(skip_ws(lexer))))

\* '{' => self.lex_lc()
LexLc ==
    /\ pc = "lex"
    /\ Takes("lex_lc")
    /\ Iterate(Outcome(lex_lc(skip_ws(lexer))))

\* '}' => self.lex_rc()
LexRc ==
    /\ pc = "lex"
    /\ Takes("lex_rc")
    /\ Iterate(Outcome(lex_rc(skip_ws(lexer))))

\* ';' => self.lex_semicolon()
LexSemicolon ==
    /\ pc = "lex"
    /\ Takes("lex_semicolon")
    /\ Iterate(Outcome(lex_semicolon(skip_ws(lexer))))

\* '-' => a symbolic name, or None => break on a line comment
LexHyphen ==
    /\ pc = "lex"
    /\ Takes("lex_hyphen")
    /\ Iterate(LET h == lex_hyphen(skip_ws(lexer))
               IN  IF h.some THEN Token_(h) ELSE Break_(h.lx))

\* '\\' => self.lex_backslash()
LexBackslash ==
    /\ pc = "lex"
    /\ Takes("lex_backslash")
    /\ Iterate(Outcome(lex_backslash(skip_ws(lexer))))

\* '\'' => self.lex_char_lit()?
LexCharLit ==
    /\ pc = "lex"
    /\ Takes("lex_char_lit")
    /\ Iterate(Outcome(lex_char_lit(skip_ws(lexer))))

\* '"' => self.lex_quoted_str_lit()?
LexQuotedStrLit ==
    /\ pc = "lex"
    /\ Takes("lex_quoted_str_lit")
    /\ Iterate(Outcome(lex_quoted_str_lit(skip_ws(lexer))))

\* an ASCII digit => self.lex_num_lit(c)?
LexNumLit ==
    /\ pc = "lex"
    /\ Takes("lex_num_lit")
    /\ Iterate(Outcome(lex_num_lit(skip_ws(lexer), Lookahead)))

\* alphabetic or _ => self.lex_alpha(c)
LexAlpha ==
    /\ pc = "lex"
    /\ Takes("lex_alpha")
    /\ Iterate(Outcome(lex_alpha(skip_ws(lexer), Lookahead)))

\* a character of SYM_CHARS => self.lex_sym(c)
LexSym ==
    /\ pc = "lex"
    /\ Takes("lex_sym")
    /\ Iterate(Outcome(lex_sym(skip_ws(lexer), Lookahead)))

\* _ => return Err(self.lex_unknown())
LexUnknown ==
    /\ pc = "lex"
    /\ Takes("lex_unknown")
    /\ Iterate(Error_(lex_unknown(skip_ws(lexer))))

Next ==
    \/ NextLine
    \/ Return
    \/ EndOfLine
    \/ LexLp
    \/ LexRp
    \/ LexLb
    \/ LexRb
    \/ LexLc
    \/ LexRc
    \/ LexSemicolon
    \/ LexHyphen
    \/ LexBackslash
    \/ LexCharLit
    \/ LexQuotedStrLit
    \/ LexNumLit
    \/ LexAlpha
    \/ LexSym
    \/ LexUnknown

(* ----------------------------------------------------------------------- *)
(* Sources                                                                 *)
(* ----------------------------------------------------------------------- *)

RECURSIVE SeqsUpTo(_, _)
\* the strings over the alphabet A of length at most n
SeqsUpTo(A, n) ==
    IF n = 0 THEN {<<>>}
    ELSE LET S == SeqsUpTo(A, n - 1)
         IN  S \cup {Append(s, a) : s \in S, a \in A}

\* one character of every dispatch class, and the line terminator
AllClasses ==
    { Ch("("), Ch(")"), Ch("["), Ch("]"), Ch("{"), Ch("}"), Ch(";"),
      Ch("-"), Ch("\\"), Ch("'"), Ch("\""), Ch("1"), Ch("a"), Ch("+"),
      Ch("SECTION SIGN"), Ch(" "), Ch("\n") }

\* the length of the strings over AllClasses
BaseLen == 2

\* the length of the strings over the alphabet of a specification
MaxLen == 4

BaseSources == SeqsUpTo(AllClasses, BaseLen)

\* the general alphabet: separators, names, literals, errors, lines
General ==
    { Ch("("), Ch(")"), Ch(" "), Ch("\n"), Ch("a"), Ch("'"), Ch("1"),
      Ch(".") }

Init == InitWith(BaseSources \cup SeqsUpTo(General, MaxLen))

Spec == Init /\ [][Next]_vars

\* short sources of every class, and lines with names, quotes and
\* characters of no class
LiveLen == 1
LiveAlphabet == { Ch("a"), Ch("'"), Ch("SECTION SIGN"), Ch("\n") }
InitLive ==
    InitWith(SeqsUpTo(AllClasses, LiveLen)
                 \cup SeqsUpTo(LiveAlphabet, LiveLen + 2))

\* the program runs on as long as it has a step to take
FairSpec == InitLive /\ [][Next]_vars /\ WF_vars(Next)

\* lines of names and comments
LinesLen == 5
LinesAlphabet == { Ch("a"), Ch(" "), Ch("-"), Ch("\n") }
InitLines == InitWith(BaseSources \cup SeqsUpTo(LinesAlphabet, LinesLen))
SpecLines == InitLines /\ [][Next]_vars

\* parentheses
ParenLen == 5
ParenAlphabet == { Ch("("), Ch(")"), Ch(" ") }
InitParen == InitWith(BaseSources \cup SeqsUpTo(ParenAlphabet, ParenLen))
SpecParen == InitParen /\ [][Next]_vars

\* names, hyphens, backslashes and comment text
CommentLen == 5
CommentAlphabet ==
    { Ch("a"), Ch(" "), Ch("-"), Ch("\\"), Ch("'"), Ch("SECTION SIGN") }
InitComment == InitWith(BaseSources \cup SeqsUpTo(CommentAlphabet, CommentLen))
SpecComment == InitComment /\ [][Next]_vars

\* character literals
CharLen == 5
CharAlphabet == { Ch("'"), Ch("a"), Ch("\\"), Ch("u"), Ch("n") }
InitChar == InitWith(BaseSources \cup SeqsUpTo(CharAlphabet, CharLen))
SpecChar == InitChar /\ [][Next]_vars

\* a text as the sequence of its characters
Str(s) == [i \in 1..Len(s) |-> Ch(s[i])]

\* character and string literals with escapes
EscLen == 4
EscAlphabet ==
    { Ch("\\"), Ch("u"), Ch("{"), Ch("}"), Ch("4"), Ch("n"), Ch("z"),
      Ch("'") }
Quotes == { Ch("'"), Ch("\"") }
\* the letters after a backslash: the fixed table and two letters outside it
EscLetters ==
    { Ch("n"), Ch("r"), Ch("t"), Ch("\\"), Ch("0"), Ch("'"), Ch("\""),
      Ch("a"), Ch("x") }
\* hex digit strings at the edges of the Unicode scalar values and of u32
HexLen == 2
HexSamples ==
    SeqsUpTo({Ch("0"), Ch("4"), Ch("1"), Ch("F"), Ch("a")}, HexLen)
        \cup { Str(<<"D", "7", "F", "F">>), Str(<<"D", "8", "0", "0">>),
               Str(<<"d", "f", "f", "f">>), Str(<<"E", "0", "0", "0">>),
               Str(<<"1", "0", "F", "F", "F", "F">>),
               Str(<<"1", "1", "0", "0", "0", "0">>),
               Str(<<"F", "F", "F", "F", "F", "F">>),
               Str(<<"F", "F", "F", "F", "F", "F", "F", "F">>),
               Str(<<"1", "0", "0", "0", "0", "0", "0", "0", "0">>),
               Str(<<"0", "0", "0", "0", "0", "0", "0", "0", "4", "1">>),
               Str(<<"4", "G">>), Str(<<"X", "Y", "Z">>) }
EscSources ==
    { <<q>> \o b \o t :
          q \in Quotes, b \in SeqsUpTo(EscAlphabet, EscLen),
          t \in {<<>>, <<Ch("'")>>, <<Ch("\"")>>} }
        \cup { <<q, Ch("\\"), e>> \o t :
                   q \in Quotes, e \in EscLetters,
                   t \in {<<>>, <<Ch("'")>>, <<Ch("\"")>>} }
        \cup { <<q, Ch("\\"), Ch("u"), Ch("{")>> \o h \o c \o t :
                   q \in Quotes, h \in HexSamples,
                   c \in {<<>>, <<Ch("}")>>},
                   t \in {<<>>, <<Ch("'")>>, <<Ch("\"")>>} }
InitEsc == InitWith(BaseSources \cup EscSources)
SpecEsc == InitEsc /\ [][Next]_vars

\* numeric literals
NumLen == 5
NumAlphabet == { Ch("0"), Ch("1"), Ch("9"), Ch("_"), Ch("."), Ch("a") }
PrefLen == 3
PrefAlphabet ==
    { Ch("0"), Ch("1"), Ch("2"), Ch("8"), Ch("F"), Ch("a"), Ch("G"),
      Ch("_"), Ch(".") }
Prefixes == { Ch("x"), Ch("X"), Ch("b"), Ch("B"), Ch("o"), Ch("O") }
\* decimal digit strings at the edge of i64
I64Samples ==
    { Str(<<"9", "2", "2", "3", "3", "7", "2", "0", "3", "6", "8", "5",
            "4", "7", "7", "5", "8", "0", "7">>),
      Str(<<"9", "_", "2", "2", "3", "_", "3", "7", "2", "_", "0", "3",
            "6", "_", "8", "5", "4", "_", "7", "7", "5", "_", "8", "0",
            "7">>),
      Str(<<"0", "9", "2", "2", "3", "3", "7", "2", "0", "3", "6", "8",
            "5", "4", "7", "7", "5", "8", "0", "7">>),
      Str(<<"9", "2", "2", "3", "3", "7", "2", "0", "3", "6", "8", "5",
            "4", "7", "7", "5", "8", "0", "8">>),
      Str(<<"1", "0", "0", "0", "0", "0", "0", "0", "0", "0", "0", "0",
            "0", "0", "0", "0", "0", "0", "0", "0">>),
      Str(<<"1", "_", "0", "0", "0", "_", "0", "0", "0">>) }
NumSources ==
    SeqsUpTo(NumAlphabet, NumLen)
        \cup { <<Ch("0"), p>> \o d :
                   p \in Prefixes, d \in SeqsUpTo(PrefAlphabet, PrefLen) }
        \cup I64Samples
InitNum == InitWith(BaseSources \cup NumSources)
SpecNum == InitNum /\ [][Next]_vars

\* integer literals at the edge of i64, in base 10, 16 and 8
OverLen == 2
\* n times the character c
Rep(c, n) == [i \in 1..n |-> c]
EdgeLiterals ==
    { Str(<<"9", "2", "2", "3", "3", "7", "2", "0", "3", "6", "8", "5",
            "4", "7", "7", "5", "8", "0">>) \o <<d>> :
          d \in {Ch("6"), Ch("7"), Ch("8"), Ch("9")} }
        \cup { <<Ch("0"), Ch("x")>> \o z \o <<f>> \o Rep(Ch("F"), 15) :
                   z \in {<<>>, <<Ch("0")>>, <<Ch("_")>>},
                   f \in {Ch("7"), Ch("8"), Ch("F")} }
        \cup { <<Ch("0"), Ch("o")>> \o Rep(Ch("7"), 21),
               <<Ch("0"), Ch("o"), Ch("1")>> \o Rep(Ch("0"), 21),
               <<Ch("0"), Ch("o"), Ch("1")>> \o Rep(Ch("7"), 21) }
OverSources ==
    { l \o d \o t :
          l \in EdgeLiterals,
          d \in SeqsUpTo({Ch("0"), Ch("_")}, OverLen),
          t \in {<<>>, <<Ch(" "), Ch("a")>>, <<Ch("+")>>} }
InitOver == InitWith(BaseSources \cup OverSources)
SpecOver == InitOver /\ [][Next]_vars

\* names of the two classes
NameLen == 4
NameAlphabet ==
    { Ch("a"), Ch("1"), Ch("_"), Ch("'"), Ch("!"), Ch("+"), Ch("-"),
      Ch("\\"), Ch(" ") }
InitName == InitWith(BaseSources \cup SeqsUpTo(NameAlphabet, NameLen))
SpecName == InitName /\ [][Next]_vars

\* literals left open at the end of a line
OpenLen == 5
OpenAlphabet ==
    { Ch("'"), Ch("\""), Ch("a"), Ch("\\"), Ch("u"), Ch("\n") }
InitOpen == InitWith(BaseSources \cup SeqsUpTo(OpenAlphabet, OpenLen))
SpecOpen == InitOpen /\ [][Next]_vars

\* hyphens and backslashes inside literals and symbolic names
PairLen == 5
PairAlphabet ==
    { Ch("\""), Ch("'"), Ch("-"), Ch("\\"), Ch("+"), Ch("a"), Ch(" ") }
InitPair == InitWith(BaseSources \cup SeqsUpTo(PairAlphabet, PairLen))
SpecPair == InitPair /\ [][Next]_vars

(* ----------------------------------------------------------------------- *)
(* Calls on a TokenStream                                                  *)
(* ----------------------------------------------------------------------- *)

\* the length of the buffers
StreamLen == 3

\* the kinds of the tokens of the buffers
StreamKinds == { Lp, Rp, Name(<<Ch("a")>>) }

\* the buffers: the token at the index i has the column i
Buffers ==
    { [i \in 1..Len(ks) |-> Token(ks[i], Span(Pos(1, i), Pos(1, i)))] :
          ks \in SeqsUpTo(StreamKinds, StreamLen) }

\* the arguments of peek: in range, out of range, and the largest usize
PeekArgs == 0..(StreamLen + 1) \cup { USIZE_MAX, USIZE_MAX - 1 }

\* the arguments of expect
Preds == { "is_lp", "is_name", "any", "none" }
ExpectErrs ==
    { Error(UnexpectedChar, Span(Pos(1, 1), Pos(1, 1))),
      Error(InvalidNumLitFormat, Span(Pos(1, 1), Pos(1, 2))) }

\* a stream is made of a buffer; the lexer is idle
InitStream ==
    /\ src = <<>>
    /\ lines = <<>>
    /\ line_idx = 0
    /\ lexer = LineLexer_new(<<>>, 0)
    /\ line_tokens = <<>>
    /\ tokens = <<>>
    /\ pc = "stream"
    /\ result = NoResult
    /\ stream \in { TokenStream_new(b) : b \in Buffers }
    /\ ret = NoCall

\* stream.peek(n)
StreamPeek ==
    /\ pc = "stream"
    /\ \E n \in PeekArgs, checks \in BOOLEAN :
           ret' = [op |-> "peek", n |-> n,
                   val |-> TokenStream_peek(stream, n, checks)]
    /\ UNCHANGED stream
    /\ UNCHANGED lexer_vars

\* stream.next()
StreamNext ==
    /\ pc = "stream"
    /\ stream' = TokenStream_next(stream).stream
    /\ ret' = [op |-> "next", val |-> TokenStream_next(stream).ret]
    /\ UNCHANGED lexer_vars

\* stream.expect(pred, err)
StreamExpect ==
    /\ pc = "stream"
    /\ \E pred \in Preds, err \in ExpectErrs :
           /\ stream' = TokenStream_expect(stream, pred, err).stream
           /\ ret' = [op |-> "expect", pred |-> pred, err |-> err,
                      val |-> TokenStream_expect(stream, pred, err).ret]
    /\ UNCHANGED lexer_vars

NextStream ==
    \/ StreamPeek
    \/ StreamNext
    \/ StreamExpect

SpecStream == InitStream /\ [][NextStream]_vars

\* whitespace only
WsLen == 4
WsAlphabet == { Ch(" "), Ch("\t"), Ch("\r"), Ch("\n") }
InitWs == InitWith(BaseSources \cup SeqsUpTo(WsAlphabet, WsLen))
SpecWs == InitWs /\ [][Next]_vars

(* ----------------------------------------------------------------------- *)
(* Vocabulary of the properties                                            *)
(* ----------------------------------------------------------------------- *)

Done == pc = "done"
ReturnedOk == Done /\ result.tag = "Ok"
ReturnedErr == Done /\ result.tag = "Err"

\* the source is one physical line without a terminator
OneLine == Len(lines) = 1 /\ lines[1] = src

\* the source characters a span covers
Covered(span) ==
    SubSeq(lines[span.start.line], span.start.col, span.end.col)

\* p is before q in source order
Before(p, q) == p.line < q.line \/ (p.line = q.line /\ p.col < q.col)

\* the kinds of a token list
Kinds(toks) == [i \in 1..Len(toks) |-> toks[i].kind]

\* line i of the source lexed alone, with its 1-based number
LineResult(i) == LineLexer_tokenize(LineLexer_new(lines[i], i), <<>>)

RECURSIVE TokensUpTo(_)
\* the tokens of lines 1..n, in line order
TokensUpTo(n) ==
    IF n = 0 THEN <<>> ELSE TokensUpTo(n - 1) \o LineResult(n).val

\* the tokens lexed so far on the current line and on the lines before it
Lexed ==
    IF pc = "lex" \/ ReturnedErr THEN tokens \o line_tokens ELSE tokens

(* ----------------------------------------------------------------------- *)
(* C1: fail-fast result of tokenize                                        *)
(* ----------------------------------------------------------------------- *)

\* the first line that does not lex
FirstBadLine ==
    CHOOSE k \in 1..Len(lines) :
        /\ ~LineResult(k).ok
        /\ \A j \in 1..(k - 1) : LineResult(j).ok

\* C1: tokenize returns either Ok with the tokens of every line, in line
\* order, or Err with the first error in source order: the error of the
\* first line that has one, which lies after every token lexed before it on
\* that line and on the earlier lines; an Err result carries no token.
C1_FailFast ==
    Done =>
        IF \A i \in 1..Len(lines) : LineResult(i).ok
        THEN result = [tag |-> "Ok", tokens |-> TokensUpTo(Len(lines))]
        ELSE /\ result = [tag |-> "Err", err |-> LineResult(FirstBadLine).err]
             /\ result.err.span.start.line = FirstBadLine
             /\ tokens = TokensUpTo(FirstBadLine - 1)
             /\ \A i \in 1..Len(Lexed) :
                    Before(Lexed[i].span.end, result.err.span.start)

\* C1 witness: an error is returned after tokens were lexed on an earlier
\* line and on the line of the error.
C1_Witness ==
    /\ ReturnedErr
    /\ tokens # <<>>
    /\ line_tokens # <<>>

(* ----------------------------------------------------------------------- *)
(* C2: order of the spans                                                  *)
(* ----------------------------------------------------------------------- *)

\* C2 as claimed: in a successful result every token starts, in line and in
\* column, at or after the end of the token before it, without overlap.
C2_NonDecreasingInBothCoordinates ==
    ReturnedOk =>
        \A i \in 1..(Len(result.tokens) - 1) :
            LET a == result.tokens[i].span
                b == result.tokens[i + 1].span
            IN  /\ a.end.line <= b.start.line
                /\ a.end.col <= b.start.col
                /\ Before(a.end, b.start)

\* C2 amended: in a successful result the spans are ordered in source
\* order (line first, then column): every span starts no later than it
\* ends, and every token starts strictly after the end of the token before
\* it, so that no two spans overlap; the column restarts on each line.
C2_SpansInSourceOrder ==
    ReturnedOk =>
        /\ \A i \in 1..Len(result.tokens) :
               ~Before(result.tokens[i].span.end, result.tokens[i].span.start)
        /\ \A i \in 1..(Len(result.tokens) - 1) :
               Before(result.tokens[i].span.end,
                      result.tokens[i + 1].span.start)

\* C2 witness: a successful result with two tokens on one line and a token
\* on the next line that starts at a smaller column than the one before it.
C2_Witness ==
    /\ ReturnedOk
    /\ \E i \in 1..(Len(result.tokens) - 1) :
           /\ result.tokens[i].span.end.line = result.tokens[i + 1].span.start.line
    /\ \E i \in 1..(Len(result.tokens) - 1) :
           /\ result.tokens[i].span.end.line < result.tokens[i + 1].span.start.line
           /\ result.tokens[i].span.end.col > result.tokens[i + 1].span.start.col

(* ----------------------------------------------------------------------- *)
(* C3: the span of a token                                                 *)
(* ----------------------------------------------------------------------- *)

\* the number of decimal points in a text
Points(text) == Cardinality({i \in 1..Len(text) : text[i] = Ch(".")})

\* the text is the source text of a token of the kind k: it starts with the
\* first and ends with the last character of the token
IsTextOf(text, k) ==
    LET last == text[Len(text)]
    IN  CASE k.tag = "CharLit" ->
                Len(text) >= 3 /\ text[1] = Ch("'") /\ last = Ch("'")
          [] k.tag = "StrLit" ->
                \/ Len(text) >= 2 /\ text[1] = Ch("\"") /\ last = Ch("\"")
                \/ /\ Len(text) >= 2
                   /\ text[1] = Ch("\\") /\ text[2] = Ch("\\")
                   /\ k.str = SubSeq(text, 3, Len(text))
          [] k.tag = "UnitLit" -> text = <<Ch("("), Ch(")")>>
          [] k.tag = "Lp" -> text = <<Ch("(")>>
          [] k.tag = "Rp" -> text = <<Ch(")")>>
          [] k.tag = "Lb" -> text = <<Ch("[")>>
          [] k.tag = "Rb" -> text = <<Ch("]")>>
          [] k.tag = "Lc" -> text = <<Ch("{")>>
          [] k.tag = "Rc" -> text = <<Ch("}")>>
          [] k.tag = "Semicolon" -> text = <<Ch(";")>>
          [] k.tag = "Name" -> text = k.name
          [] k.tag = "IntLit" ->
                /\ is_ascii_digit(text[1])
                /\ Points(text) = 0
                /\ is_ascii_hexdigit(last) \/ last = Ch("_")
          [] k.tag = "FloatLit" ->
                /\ is_ascii_digit(text[1])
                /\ Points(text) = 1
                /\ \A i \in 1..Len(text) :
                       is_ascii_digit(text[i]) \/ text[i] \in {Ch("_"), Ch(".")}

\* the span lies on one line of the source, within its characters
InLine(span) ==
    /\ span.start.line = span.end.line
    /\ span.start.line \in 1..Len(lines)
    /\ 1 <= span.start.col
    /\ span.start.col <= span.end.col
    /\ span.end.col <= Len(lines[span.start.line])

\* C3: every token returned by tokenize has a span from the 1-based
\* position of its first source character to that of its last one,
\* inclusive: the quotes of a char or string literal, ( and ) of the unit
\* literal, one position for a separator, the digits and the decimal point
\* of a numeric literal.
C3_SpanDelimitsToken ==
    ReturnedOk =>
        \A i \in 1..Len(result.tokens) :
            /\ InLine(result.tokens[i].span)
            /\ IsTextOf(Covered(result.tokens[i].span), result.tokens[i].kind)

(* ----------------------------------------------------------------------- *)
(* C4: line terminators                                                    *)
(* ----------------------------------------------------------------------- *)

\* the line terminators of the source
Terminators == {i \in 1..Len(src) : src[i] = Ch("\n")}

\* the tokens of the result that cover no character of their line
OutOfLineTokens ==
    {i \in 1..Len(result.tokens) : ~InLine(result.tokens[i].span)}

TokenCount(l) == Len(LineLexer_tokenize(LineLexer_new(lines[l], 0), <<>>).val)

\* C5: the tokens are returned in line order, every token lies on one line,
\* and its line number is the 1-based index of the physical line it was
\* read from: line l of the source has exactly the tokens numbered l.
C5_LineNumbers ==
    ReturnedOk =>
        /\ \A i \in 1..Len(result.tokens) :
               /\ result.tokens[i].span.start.line = result.tokens[i].span.end.line
               /\ result.tokens[i].span.start.line \in 1..Len(lines)
        /\ \A i \in 1..(Len(result.tokens) - 1) :
               result.tokens[i].span.start.line
                   <= result.tokens[i + 1].span.start.line
        /\ \A l \in 1..Len(lines) :
               Cardinality({i \in 1..Len(result.tokens) :
                                result.tokens[i].span.start.line = l})
                   = TokenCount(l)

\* C5 witness: three lines with one name each give the lines 1, 2, 3.
C5_Witness ==
    /\ ReturnedOk
    /\ Len(lines) = 3
    /\ Len(result.tokens) = 3
    /\ \A i \in 1..3 :
           /\ result.tokens[i].kind.tag = "Name"
           /\ result.tokens[i].span.start.line = i

(* ----------------------------------------------------------------------- *)
(* C6: whitespace only                                                     *)
(* ----------------------------------------------------------------------- *)

WhitespaceOnly == \A i \in 1..Len(src) : is_whitespace(src[i])

RECURSIVE ParenTokens(_, _)
\* the tokens expected of a line of parentheses and spaces, from column i
ParenTokens(line, i) ==
    IF i > Len(line) THEN <<>>
    ELSE IF line[i] = Ch(" ") THEN ParenTokens(line, i + 1)
    ELSE IF line[i] = Ch(")")
    THEN <<Token(Rp, Span(Pos(1, i), Pos(1, i)))>> \o ParenTokens(line, i + 1)
    ELSE IF i < Len(line) /\ line[i + 1] = Ch(")")
    THEN <<Token(UnitLit, Span(Pos(1, i), Pos(1, i + 1)))>>
             \o ParenTokens(line, i + 2)
    ELSE <<Token(Lp, Span(Pos(1, i), Pos(1, i)))>> \o ParenTokens(line, i + 1)

OnlyParens == \A i \in 1..Len(src) : src[i] \in ParenAlphabet

\* C7: a ( immediately followed by ) gives one UnitLit spanning both
\* characters; a ( followed by anything else, a space included, or by the
\* end of the line gives Lp, and the ) after it gives an Rp of its own.
C7_UnitLit ==
    /\ (Done /\ OnlyParens /\ src # <<>>) =>
           result = [tag |-> "Ok", tokens |-> ParenTokens(src, 1)]
    /\ (Done /\ Len(src) = 2 /\ src[1] = Ch("(") /\ src[2] # Ch(")")) =>
           /\ Lexed # <<>>
           /\ Lexed[1] = Token(Lp, Span(Pos(1, 1), Pos(1, 1)))

\* C7 witness: a line with a unit literal, then ( and ) apart.
C7_Witness ==
    /\ ReturnedOk
    /\ OnlyParens
    /\ Len(result.tokens) = 3
    /\ Kinds(result.tokens) = <<UnitLit, Lp, Rp>>
    /\ Len(src) = 5

(* ----------------------------------------------------------------------- *)
(* C8: line comments                                                       *)
(* ----------------------------------------------------------------------- *)

\* the line P lexed alone
Prefix(k) == LineLexer_tokenize(LineLexer_new(SubSeq(src, 1, k), 1), <<>>)

\* no token of the line P is a raw string literal
NoRaw(toks, P) ==
    \A i \in 1..Len(toks) :
        toks[i].kind.tag = "StrLit" => P[toks[i].span.start.col] = Ch("\"")

\* the source is P, then a space and two hyphens, then any text, with P of
\* length k
CommentAt(k) ==
    /\ k + 3 <= Len(src)
    /\ SubSeq(src, k + 1, k + 3) = <<Ch(" "), Ch("-"), Ch("-")>>

\* C8: for a line P that lexes without error and has no raw string literal
\* and any comment text C, the line P, space, two hyphens, C gives the
\* token kinds of P; a line that begins with two hyphens gives no token and
\* no error.
C8_LineComment ==
    (Done /\ OneLine) =>
        /\ \A k \in 0..Len(src) :
               (/\ CommentAt(k)
                /\ Prefix(k).ok
                /\ NoRaw(Prefix(k).val, SubSeq(src, 1, k)))
                   => /\ ReturnedOk
                      /\ Kinds(result.tokens) = Kinds(Prefix(k).val)
        /\ (Len(src) >= 2 /\ src[1] = Ch("-") /\ src[2] = Ch("-"))
               => result = [tag |-> "Ok", tokens |-> <<>>]

\* C8 witness: a name, then a comment whose text is a quote or a character
\* no token starts with.
C8_Witness ==
    /\ ReturnedOk
    /\ OneLine
    /\ CommentAt(1)
    /\ Len(src) = 5
    /\ src[5] \in {Ch("'"), Ch("SECTION SIGN")}
    /\ Kinds(result.tokens) = <<Name(<<Ch("a")>>)>>

(* ----------------------------------------------------------------------- *)
(* C9: a single hyphen or backslash                                        *)
(* ----------------------------------------------------------------------- *)

\* the lookahead is a hyphen or a backslash that the same character does
\* not follow
SingleHyphenOrBackslash ==
    /\ pc = "lex"
    /\ Lookahead \in {Ch("-"), Ch("\\")}
    /\ nth1(skip_ws(lexer)) # Lookahead

\* C9: a hyphen not followed by a hyphen, or a backslash not followed by a
\* backslash, gives a symbolic Name that starts with that character. The
\* decision consumes nothing: the name starts at the column of the
\* lookahead, and the column counter moves by the length of the name only.
C9_SingleHyphenOrBackslash ==
    [][SingleHyphenOrBackslash =>
          /\ pc' = "lex"
          /\ Len(line_tokens') = Len(line_tokens) + 1
          /\ SubSeq(line_tokens', 1, Len(line_tokens)) = line_tokens
          /\ LET lx == skip_ws(lexer)
                 t == line_tokens'[Len(line_tokens')]
             IN  /\ t.kind.tag = "Name"
                 /\ t.kind.name[1] = Lookahead
                 /\ t.kind.name = SubSeq(lx.chars, 1, Len(t.kind.name))
                 /\ t.span.start = Pos(lx.line_no, lx.col_no + 1)
                 /\ t.span.end = Pos(lx.line_no, lx.col_no + Len(t.kind.name))
                 /\ lexer'.col_no = lx.col_no + Len(t.kind.name)
                 /\ lexer'.chars =
                        SubSeq(lx.chars, Len(t.kind.name) + 1, Len(lx.chars))
      ]_vars

\* C9 witness: a single hyphen or backslash was lexed as a name of its own
\* and the letter after it is still to be read.
C9_Witness ==
    /\ pc = "lex"
    /\ line_tokens # <<>>
    /\ LET t == line_tokens[Len(line_tokens)]
       IN  /\ t.kind \in {Name(<<Ch("-")>>), Name(<<Ch("\\")>>)}
           /\ lexer.col_no = t.span.start.col
           /\ peek(lexer) = Ch("a")

(* ----------------------------------------------------------------------- *)
(* C10: the outcome of a character literal                                 *)
(* ----------------------------------------------------------------------- *)

\* the escape letters of CharAlphabet that decode to a character
Decodes(c) == c \in {Ch("n"), Ch("\\"), Ch("'")}

RECURSIVE Body(_, _, _, _)
\* reads the literal from index i of the line, n characters decoded so
\* far, the last of them c: "closed" at the closing quote, "ended" when the
\* line ends before it, "malformed" at an escape that decodes to nothing
Body(line, i, n, c) ==
    IF i > Len(line) THEN [how |-> "ended", n |-> n, c |-> c]
    ELSE IF line[i] = Ch("'") THEN [how |-> "closed", n |-> n, c |-> c]
    ELSE IF line[i] # Ch("\\") THEN Body(line, i + 1, n + 1, line[i])
    ELSE IF i + 1 > Len(line) THEN [how |-> "ended", n |-> n, c |-> c]
    ELSE IF Decodes(line[i + 1])
    THEN Body(line, i + 2, n + 1,
              IF line[i + 1] = Ch("n") THEN Ch("\n") ELSE line[i + 1])
    ELSE IF line[i + 1] = Ch("u") /\ i + 2 > Len(line)
    THEN [how |-> "ended", n |-> n, c |-> c]
    ELSE [how |-> "malformed", n |-> n, c |-> c]

\* the source is one line of CharAlphabet that starts a character literal
CharLitLine ==
    /\ OneLine
    /\ src # <<>>
    /\ src[1] = Ch("'")
    /\ \A i \in 1..Len(src) : src[i] \in CharAlphabet

\* C10: at the closing quote of a character literal the outcome depends on
\* the number n of characters decoded between the quotes only: EmptyCharLit
\* for n = 0, CharLit of the character for n = 1, MultipleCharsInCharLit
\* for n > 1; when the line ends before a closing quote the error is
\* UnterminatedCharOrStrLit for every n.
C10_CharLitOutcome ==
    (Done /\ CharLitLine) =>
        LET b == Body(src, 2, 0, None)
        IN  /\ (b.how = "closed" /\ b.n = 0) =>
                   ReturnedErr /\ result.err.kind = EmptyCharLit
            /\ (b.how = "closed" /\ b.n = 1) =>
                   Lexed # <<>> /\ Lexed[1].kind = CharLit(b.c)
            /\ (b.how = "closed" /\ b.n > 1) =>
                   ReturnedErr /\ result.err.kind = MultipleCharsInCharLit
            /\ b.how = "ended" =>
                   ReturnedErr /\ result.err.kind = UnterminatedCharOrStrLit

(* ----------------------------------------------------------------------- *)
(* The grammar of character and string literals, as the specification      *)
(* states it; the lexer is compared with it.                               *)
(* ----------------------------------------------------------------------- *)

HexLower == Str(<<"0", "1", "2", "3", "4", "5", "6", "7", "8", "9",
                  "a", "b", "c", "d", "e", "f">>)
HexUpper == Str(<<"0", "1", "2", "3", "4", "5", "6", "7", "8", "9",
                  "A", "B", "C", "D", "E", "F">>)
IsHex(c) == \E d \in 1..16 : c \in {HexLower[d], HexUpper[d]}
HexValueOf(c) == (CHOOSE d \in 1..16 : c \in {HexLower[d], HexUpper[d]}) - 1

RECURSIVE StripLeadingZeros(_)
StripLeadingZeros(h) ==
    IF h # <<>> /\ h[1] = Ch("0") THEN StripLeadingZeros(Tail(h)) ELSE h

RECURSIVE HexNumber(_)
\* the value of at most six hex digits
HexNumber(h) ==
    IF h = <<>> THEN 0
    ELSE 16 * HexNumber(SubSeq(h, 1, Len(h) - 1)) + HexValueOf(h[Len(h)])

\* the Unicode scalar value the hex digits h name, None when they name none
ScalarOf(h) ==
    LET z == StripLeadingZeros(h)
    IN  IF h = <<>> \/ Len(z) > 6 THEN None
        ELSE IF HexNumber(z) > 1114111 \/ HexNumber(z) \in 55296..57343
        THEN None
        ELSE HexNumber(z)

\* the character the letter e decodes to after a backslash, None outside
\* the fixed table
TableOf(e) ==
    CASE e = Ch("n") -> Ch("\n")
      [] e = Ch("r") -> Ch("\r")
      [] e = Ch("t") -> Ch("\t")
      [] e = Ch("\\") -> Ch("\\")
      [] e = Ch("0") -> Ch("NUL")
      [] e = Ch("'") -> Ch("'")
      [] e = Ch("\"") -> Ch("\"")
      [] OTHER -> None

\* the first index from j on that holds no hex digit
HexEnd(line, j) ==
    CHOOSE k \in j..(Len(line) + 1) :
        /\ \A m \in j..(k - 1) : IsHex(line[m])
        /\ k <= Len(line) => ~IsHex(line[k])

\* the escape sequence whose backslash is at index i of the line: "ok" with
\* the decoded character c and the index after it, "ended" when the line
\* ends inside it, "malformed" with the index of the character that makes
\* it so
Escape(line, i) ==
    LET k == HexEnd(line, i + 3)
    IN  IF i + 1 > Len(line) THEN [how |-> "ended"]
        ELSE IF line[i + 1] # Ch("u")
        THEN IF TableOf(line[i + 1]) # None
             THEN [how |-> "ok", c |-> TableOf(line[i + 1]), next |-> i + 2]
             ELSE [how |-> "malformed", last |-> i + 1]
        ELSE IF i + 2 > Len(line) THEN [how |-> "ended"]
        ELSE IF line[i + 2] # Ch("{") THEN [how |-> "malformed", last |-> i + 2]
        ELSE IF k > Len(line) THEN [how |-> "ended"]
        ELSE IF line[k] = Ch("}") /\ ScalarOf(SubSeq(line, i + 3, k - 1)) # None
        THEN [how |-> "ok", c |-> ScalarOf(SubSeq(line, i + 3, k - 1)),
              next |-> k + 1]
        ELSE [how |-> "malformed", last |-> k]

RECURSIVE Scan(_, _, _, _)
\* reads the literal that the quote q opened from index i of the line, str
\* being decoded so far: "closed" at the closing quote (index at), "ended"
\* when the line ends before it (esc: inside an escape sequence),
\* "malformed" at an escape sequence that decodes to nothing
Scan(line, i, q, str) ==
    IF i > Len(line) THEN [how |-> "ended", str |-> str, esc |-> FALSE]
    ELSE IF line[i] = q THEN [how |-> "closed", str |-> str, at |-> i]
    ELSE IF line[i] # Ch("\\") THEN Scan(line, i + 1, q, Append(str, line[i]))
    ELSE LET e == Escape(line, i)
         IN  CASE e.how = "ok" -> Scan(line, e.next, q, Append(str, e.c))
               [] e.how = "ended" ->
                     [how |-> "ended", str |-> str, esc |-> TRUE]
               [] OTHER ->
                     [how |-> "malformed", str |-> str, at |-> i,
                      last |-> e.last]

\* the source is one line that starts a character or string literal
LitLine == OneLine /\ src # <<>> /\ src[1] \in Quotes

\* the literal at the start of the line, read by the grammar
Lit == Scan(src, 2, src[1], <<>>)

(* ----------------------------------------------------------------------- *)
(* C11: unterminated literals                                              *)
(* ----------------------------------------------------------------------- *)

\* C11: a character or string literal whose closing quote is missing when
\* the line ends gives UnterminatedCharOrStrLit, with a span from the
\* opening quote to the last character consumed, the last of the line.
C11_Unterminated ==
    (Done /\ LitLine /\ Lit.how = "ended") =>
        /\ ReturnedErr
        /\ result.err =
               Error(UnterminatedCharOrStrLit,
                     Span(Pos(1, 1), Pos(1, Len(src))))

(* ----------------------------------------------------------------------- *)
(* C12: round trip of the escape sequences                                 *)
(* ----------------------------------------------------------------------- *)

\* the line is a literal that holds exactly one accepted escape sequence
OneEscape ==
    /\ LitLine
    /\ Len(src) >= 4
    /\ src[2] = Ch("\\")
    /\ src[Len(src)] = src[1]
    /\ Escape(src, 2).how = "ok"
    /\ Escape(src, 2).next = Len(src)

\* C12: for every accepted escape sequence e with decoded character c (the
\* fixed table n, r, t, backslash, 0, the two quotes, and u{h} for hex
\* digits h that name a Unicode scalar value), the string literal that
\* holds exactly \e is the one-character string c, and the character
\* literal that holds exactly \e is CharLit(c).
C12_EscapeRoundTrip ==
    (Done /\ OneEscape) =>
        result =
            [tag |-> "Ok",
             tokens |->
                 <<Token(IF src[1] = Ch("'")
                         THEN CharLit(Escape(src, 2).c)
                         ELSE StrLit(<<Escape(src, 2).c>>),
                         Span(Pos(1, 1), Pos(1, Len(src))))>>]

\* C12 witness: the string literal that holds \u{4a} was lexed to the
\* one-character string J.
C12_Witness ==
    /\ ReturnedOk
    /\ OneEscape
    /\ Len(src) = 8
    /\ SubSeq(src, 3, 7) = Str(<<"u", "{", "4", "a", "}">>)
    /\ Kinds(result.tokens) = <<StrLit(<<Ch("J")>>)>>

(* ----------------------------------------------------------------------- *)
(* C13: which escape sequences are accepted                                *)
(* ----------------------------------------------------------------------- *)

\* the literal the grammar reads to its closing quote is a token: a string
\* literal, or a character literal of exactly one character
LitHasKind == src[1] = Ch("\"") \/ Len(Lit.str) = 1
LitKind ==
    IF src[1] = Ch("\"") THEN StrLit(Lit.str) ELSE CharLit(Lit.str[1])

\* C13: \u is accepted if and only if { follows, then one or more hex
\* digits, then }, and the digits read in base 16 name a Unicode scalar
\* value (no surrogate, nothing above 10FFFF, nothing beyond 32 bits); a
\* letter after the backslash is accepted if and only if it is one of the
\* fixed table. A literal whose escape sequences are all of these forms
\* decodes to their characters; the first escape sequence of another form
\* gives UnknownEscapeSeq.
C13_AcceptedEscapes ==
    (Done /\ LitLine) =>
        /\ (Lit.how = "closed" /\ LitHasKind) =>
               /\ Lexed # <<>>
               /\ Lexed[1] = Token(LitKind, Span(Pos(1, 1), Pos(1, Lit.at)))
        /\ (Lit.how = "closed" /\ ~LitHasKind) =>
               /\ ReturnedErr
               /\ result.err.kind \in {EmptyCharLit, MultipleCharsInCharLit}
        /\ Lit.how = "malformed" =>
               ReturnedErr /\ result.err.kind = UnknownEscapeSeq

\* C13 witness: the escape \u{FFFFFF}, above the last scalar value, was
\* refused.
C13_Witness ==
    /\ ReturnedErr
    /\ LitLine
    /\ Lit.how = "malformed"
    /\ Len(src) >= 11
    /\ SubSeq(src, 2, 11) =
           Str(<<"\\", "u", "{", "F", "F", "F", "F", "F", "F", "}">>)
    /\ result.err.kind = UnknownEscapeSeq

(* ----------------------------------------------------------------------- *)
(* C14: the span of UnknownEscapeSeq                                       *)
(* ----------------------------------------------------------------------- *)

\* C14: every UnknownEscapeSeq error has a span from the backslash of the
\* escape sequence that is malformed (an unknown letter, a missing {, a
\* character that is no hex digit inside the braces, empty braces, a code
\* point out of range) to the last character consumed in decoding it.
C14_UnknownEscapeSpan ==
    (ReturnedErr /\ LitLine /\ result.err.kind = UnknownEscapeSeq) =>
        /\ Lit.how = "malformed"
        /\ result.err.span = Span(Pos(1, Lit.at), Pos(1, Lit.last))

(* ----------------------------------------------------------------------- *)
(* C15: a line that ends inside an escape sequence                         *)
(* ----------------------------------------------------------------------- *)

\* C15: when the line ends inside an escape sequence of a literal (after
\* the backslash, after \u, after \u{, after \u{ and hex digits) the error
\* is UnterminatedCharOrStrLit, not UnknownEscapeSeq, and its span starts
\* at the opening quote of the literal.
C15_EndsInsideEscape ==
    (Done /\ LitLine /\ Lit.how = "ended" /\ Lit.esc) =>
        /\ ReturnedErr
        /\ result.err.kind = UnterminatedCharOrStrLit
        /\ result.err.span.start = Pos(1, 1)

(* ----------------------------------------------------------------------- *)
(* C16: raw string literals                                                *)
(* ----------------------------------------------------------------------- *)

\* the next token starts with two backslashes
TwoBackslashes ==
    /\ pc = "lex"
    /\ Lookahead = Ch("\\")
    /\ nth1(skip_ws(lexer)) = Ch("\\")

\* C16: a token that starts with two backslashes is always a StrLit, never
\* an error; its content is the rest of the line after the two backslashes
\* as it stands (nothing decoded, nothing trimmed, hyphens, quotes and
\* characters no token starts with included), its span runs from the first
\* backslash to the end of the line, and nothing of the line is left
\* after it: it is the last token of its line.
C16_RawString ==
    [][TwoBackslashes =>
          LET lx == skip_ws(lexer)
          IN  /\ pc' = "lex"
              /\ line_tokens' =
                     Append(line_tokens,
                            Token(StrLit(SubSeq(lx.chars, 3, Len(lx.chars))),
                                  Span(Pos(lx.line_no, lx.col_no + 1),
                                       Pos(lx.line_no,
                                           Len(lines[line_idx])))))
              /\ lexer'.chars = <<>>
              /\ lexer'.col_no = Len(lines[line_idx])
      ]_vars

\* C16 witness: a raw string whose content is a space, a quote or a
\* character no token starts with, and a space was lexed, the line is
\* consumed.
C16_Witness ==
    /\ pc = "lex"
    /\ lexer.chars = <<>>
    /\ line_tokens # <<>>
    /\ LET t == line_tokens[Len(line_tokens)]
       IN  /\ t.kind.tag = "StrLit"
           /\ Len(t.kind.str) = 3
           /\ t.kind.str[1] = Ch(" ")
           /\ t.kind.str[2] \in {Ch("'"), Ch("SECTION SIGN"), Ch("-")}
           /\ t.kind.str[3] = Ch(" ")
           /\ Covered(t.span) = <<Ch("\\"), Ch("\\")>> \o t.kind.str

(* ----------------------------------------------------------------------- *)
(* C17: decimal literals with underscores                                  *)
(* ----------------------------------------------------------------------- *)

\* the text without its underscores
Dropped(text) == SelectSeq(text, LAMBDA c : c # Ch("_"))

RECURSIVE DigitsLeq(_, _)
\* a <= b, for decimal digit strings without leading zeros
DigitsLeq(a, b) ==
    IF Len(a) # Len(b) THEN Len(a) < Len(b)
    ELSE IF a = <<>> THEN TRUE
    ELSE IF a[1] # b[1] THEN a[1] < b[1]
    ELSE DigitsLeq(Tail(a), Tail(b))

\* the digit string names a value of a signed 64-bit integer
FitsI64(digits) ==
    DigitsLeq(StripLeadingZeros(digits),
              Str(<<"9", "2", "2", "3", "3", "7", "2", "0", "3", "6", "8",
                    "5", "4", "7", "7", "5", "8", "0", "7">>))

\* the four decimal digits of a limb
LimbDigits(l) ==
    <<Ch("0") + (l \div 1000), Ch("0") + ((l \div 100) % 10),
      Ch("0") + ((l \div 10) % 10), Ch("0") + (l % 10)>>

RECURSIVE AllLimbDigits(_)
AllLimbDigits(v) ==
    IF v = <<>> THEN <<>> ELSE AllLimbDigits(Tail(v)) \o LimbDigits(v[1])

\* the decimal digits of the value v, without leading zeros
ToDecimal(v) == StripLeadingZeros(AllLimbDigits(v))

\* the source is one decimal digit string with underscores inside it only
DecimalLine ==
    /\ OneLine
    /\ src # <<>>
    /\ \A i \in 1..Len(src) : is_ascii_digit(src[i]) \/ src[i] = Ch("_")
    /\ is_ascii_digit(src[1])
    /\ is_ascii_digit(src[Len(src)])

\* C17: a decimal digit string with underscores inside it, whose value fits
\* a signed 64-bit integer, gives one IntLit over the whole string; its
\* value is the string without the underscores read in base 10, so that
\* the underscores never change the value.
C17_DecimalUnderscores ==
    (Done /\ DecimalLine /\ FitsI64(Dropped(src))) =>
        /\ ReturnedOk
        /\ Len(result.tokens) = 1
        /\ result.tokens[1].kind.tag = "IntLit"
        /\ ToDecimal(result.tokens[1].kind.val)
               = StripLeadingZeros(Dropped(src))
        /\ result.tokens[1].span = Span(Pos(1, 1), Pos(1, Len(src)))

\* C17 witness: 9_223_372_036_854_775_807, the last value of i64 with
\* underscores, was lexed to one IntLit.
C17_Witness ==
    /\ ReturnedOk
    /\ DecimalLine
    /\ Len(src) = 25
    /\ Len(Dropped(src)) = 19
    /\ Len(result.tokens) = 1
    /\ result.tokens[1].kind = IntLit(I64_MAX)

(* ----------------------------------------------------------------------- *)
(* C18: literals with a base prefix                                        *)
(* ----------------------------------------------------------------------- *)

\* the base a prefix letter names
BaseOf(p) ==
    CASE p \in {Ch("x"), Ch("X")} -> 16
      [] p \in {Ch("b"), Ch("B")} -> 2
      [] p \in {Ch("o"), Ch("O")} -> 8

\* c is a digit of the base
DigitOf(c, base) == IsHex(c) /\ HexValueOf(c) < base

RECURSIVE Number(_, _)
\* the value of a short digit string in the base
Number(digits, base) ==
    IF digits = <<>> THEN 0
    ELSE base * Number(SubSeq(digits, 1, Len(digits) - 1), base)
             + HexValueOf(digits[Len(digits)])

\* the source is one line that starts with 0 and a prefix letter
PrefixedLine ==
    /\ OneLine
    /\ Len(src) >= 2
    /\ src[1] = Ch("0")
    /\ src[2] \in Prefixes

\* what follows the prefix
AfterPrefix == SubSeq(src, 3, Len(src))

\* digits of the base follow the prefix, with underscores between them only
DigitsFollow ==
    /\ AfterPrefix # <<>>
    /\ \A i \in 3..Len(src) :
           DigitOf(src[i], BaseOf(src[2])) \/ src[i] = Ch("_")
    /\ DigitOf(src[3], BaseOf(src[2]))
    /\ DigitOf(src[Len(src)], BaseOf(src[2]))

\* no digit of the base follows the prefix
NoDigitFollows ==
    \/ Dropped(AfterPrefix) = <<>>
    \/ ~DigitOf(Dropped(AfterPrefix)[1], BaseOf(src[2]))

\* C18: for a literal of 0, then x/X, b/B or o/O, then digits of base 16, 2
\* or 8 with underscores between them, the value of the IntLit is the
\* digits after the prefix read in that base, the prefix left out; a prefix
\* that no digit of its base follows ("0x" alone) gives
\* InvalidNumLitFormat.
C18_BasePrefix ==
    (Done /\ PrefixedLine) =>
        /\ DigitsFollow =>
               /\ ReturnedOk
               /\ Len(result.tokens) = 1
               /\ result.tokens[1].kind.tag = "IntLit"
               /\ BigToInt(result.tokens[1].kind.val)
                      = Number(Dropped(AfterPrefix), BaseOf(src[2]))
               /\ result.tokens[1].span = Span(Pos(1, 1), Pos(1, Len(src)))
        /\ NoDigitFollows =>
               /\ ReturnedErr
               /\ result.err.kind = InvalidNumLitFormat
               /\ result.err.span.start = Pos(1, 1)

\* C18 witness: 0xF_a was lexed to IntLit(250).
C18_Witness ==
    /\ ReturnedOk
    /\ PrefixedLine
    /\ src[2] = Ch("x")
    /\ AfterPrefix = Str(<<"F", "_", "a">>)
    /\ Len(result.tokens) = 1
    /\ result.tokens[1].kind.tag = "IntLit"
    /\ BigToInt(result.tokens[1].kind.val) = 250

(* ----------------------------------------------------------------------- *)
(* C19, C20: where a numeric literal stops                                 *)
(* ----------------------------------------------------------------------- *)

\* the next token starts with a digit
DigitAhead == pc = "lex" /\ Lookahead # None /\ is_ascii_digit(Lookahead)

\* the characters from the next token on
Ahead == skip_ws(lexer).chars

\* the literal ahead has a base prefix
PrefixAhead ==
    Len(Ahead) >= 2 /\ Ahead[1] = Ch("0") /\ Ahead[2] \in Prefixes

\* the base of the literal ahead, and the index of what follows its first
\* digit or its prefix
BaseAhead == IF PrefixAhead THEN BaseOf(Ahead[2]) ELSE 10
BodyAhead == IF PrefixAhead THEN 3 ELSE 2

RECURSIVE StopAt(_, _, _, _)
\* the index from i on of the first character of the text that is no digit
\* of the base, no underscore and, in base 10, not the first decimal point
\* (point: a decimal point came before); Len(text) + 1 when there is none
StopAt(text, i, base, point) ==
    IF i > Len(text) THEN i
    ELSE IF text[i] = Ch("_") \/ DigitOf(text[i], base)
    THEN StopAt(text, i + 1, base, point)
    ELSE IF text[i] = Ch(".") /\ base = 10 /\ ~point
    THEN StopAt(text, i + 1, base, TRUE)
    ELSE i

\* the index of the character that stops the literal ahead
StopAhead == StopAt(Ahead, BodyAhead, BaseAhead, FALSE)

\* the literal ahead has a digit
DigitsAhead ==
    ~PrefixAhead
        \/ \E i \in BodyAhead..(StopAhead - 1) : DigitOf(Ahead[i], BaseAhead)

\* C19: in a numeric literal the first character that is no digit of the
\* active base (and no underscore and, in base 10, not the first decimal
\* point) stops the scan; it is not consumed and it is no error: the digits
\* before it are one token, which ends before it, and the character is
\* left to start the next token.
C19_StopsAtInvalidDigit ==
    [][(DigitAhead /\ StopAhead <= Len(Ahead)) =>
          /\ lexer'.chars = SubSeq(Ahead, StopAhead, Len(Ahead))
          /\ lexer'.col_no = skip_ws(lexer).col_no + StopAhead - 1
          /\ DigitsAhead =>
                 /\ pc' = "lex"
                 /\ Len(line_tokens') = Len(line_tokens) + 1
                 /\ line_tokens'[Len(line_tokens')].span.end.col
                        = skip_ws(lexer).col_no + StopAhead - 1
      ]_vars

\* C20: a decimal point is part of a numeric literal in base 10 only, and
\* once only. A decimal point after a literal of another base, and a second
\* decimal point in base 10, end the literal and are not consumed: the
\* point is the next character to be lexed, and the literal is never made
\* of more than its digits and one decimal point.
C20_SecondDecimalPoint ==
    [][(DigitAhead /\ StopAhead <= Len(Ahead)
           /\ Ahead[StopAhead] = Ch(".")) =>
          /\ peek(lexer') = Ch(".")
          /\ lexer'.col_no = skip_ws(lexer).col_no + StopAhead - 1
          /\ BaseAhead = 10 =>
                 /\ Len(line_tokens') = Len(line_tokens) + 1
                 /\ line_tokens'[Len(line_tokens')].kind.tag = "FloatLit"
                 /\ Points(Covered(line_tokens'[Len(line_tokens')].span)) = 1
      ]_vars

(* ----------------------------------------------------------------------- *)
(* C21: integer literals beyond i64                                        *)
(* ----------------------------------------------------------------------- *)

\* the source starts with a numeric literal: its prefix, base, the index of
\* what follows the first digit or the prefix, the index where it stops
SrcPrefixed == Len(src) >= 2 /\ src[1] = Ch("0") /\ src[2] \in Prefixes
SrcBase == IF SrcPrefixed THEN BaseOf(src[2]) ELSE 10
SrcBody == IF SrcPrefixed THEN 3 ELSE 2
SrcStop == StopAt(src, SrcBody, SrcBase, FALSE)

\* the digits of the literal, without prefix, underscores and leading zeros
SrcDigits ==
    StripLeadingZeros(
        Dropped(SubSeq(src, IF SrcPrefixed THEN 3 ELSE 1, SrcStop - 1)))

\* the number of bits of a hex digit
BitsOf(c) ==
    CASE HexValueOf(c) >= 8 -> 4
      [] HexValueOf(c) >= 4 -> 3
      [] HexValueOf(c) >= 2 -> 2
      [] HexValueOf(c) >= 1 -> 1
      [] OTHER -> 0

\* the number of bits of each digit of the base
BitsPerDigit == CASE SrcBase = 16 -> 4 [] SrcBase = 8 -> 3 [] OTHER -> 1

\* the digits of the literal name a value of a signed 64-bit integer
SrcFitsI64 ==
    IF SrcBase = 10 THEN FitsI64(SrcDigits)
    ELSE \/ SrcDigits = <<>>
         \/ (Len(SrcDigits) - 1) * BitsPerDigit + BitsOf(SrcDigits[1]) <= 63

\* the source is one line that starts with an integer literal with a digit
IntLine ==
    /\ OneLine
    /\ src # <<>>
    /\ is_ascii_digit(src[1])
    /\ Points(SubSeq(src, 1, SrcStop - 1)) = 0
    /\ ~SrcPrefixed \/ \E i \in 3..(SrcStop - 1) : DigitOf(src[i], SrcBase)

\* C21: an integer literal whose digits, in its base, do not fit a signed
\* 64-bit integer gives InvalidNumLitFormat, no IntLit of a wrapped or cut
\* value; the span of the error is the literal, from its first character
\* to the last character consumed.
C21_IntegerOverflow ==
    (Done /\ IntLine /\ ~SrcFitsI64) =>
        /\ ReturnedErr
        /\ result.err =
               Error(InvalidNumLitFormat,
                     Span(Pos(1, 1), Pos(1, SrcStop - 1)))

\* C21 witness: 0x8000000000000000 with more text after it was refused.
C21_Witness ==
    /\ ReturnedErr
    /\ IntLine
    /\ ~SrcFitsI64
    /\ SrcBase = 16
    /\ SrcDigits = <<Ch("8")>> \o Rep(Ch("F"), 15)
    /\ SrcStop <= Len(src)
    /\ result.err.kind = InvalidNumLitFormat

(* ----------------------------------------------------------------------- *)
(* C22: the two classes of names                                           *)
(* ----------------------------------------------------------------------- *)

\* the next token starts an alphabetic name
AlphaAhead ==
    /\ pc = "lex"
    /\ Lookahead # None
    /\ is_alphabetic(Lookahead) \/ Lookahead = Ch("_")

\* the next token starts a symbolic name: a symbolic character that opens
\* no character literal, no line comment and no raw string
SymAhead ==
    /\ pc = "lex"
    /\ Lookahead \in SYM_CHARS \ {Ch("'")}
    /\ ~(Lookahead \in {Ch("-"), Ch("\\")} /\ nth1(skip_ws(lexer)) = Lookahead)

\* c may follow the first character of an alphabetic name
InAlpha(c) == is_alphanumeric(c) \/ c \in {Ch("_"), Ch("'"), Ch("!")}

\* the length of the longest start of the text made of characters of Part
RunOf(text, Part(_)) ==
    CHOOSE k \in 0..Len(text) :
        /\ \A i \in 1..k : Part(text[i])
        /\ k < Len(text) => ~Part(text[k + 1])

\* the length of the name ahead
NameRun ==
    IF AlphaAhead THEN RunOf(Ahead, InAlpha)
    ELSE RunOf(Ahead, LAMBDA c : c \in SYM_CHARS)

\* C22: the class of a name is fixed by its first character. A token that
\* starts with an alphabetic character or an underscore is the longest run
\* of alphanumerics, underscores, apostrophes and exclamation marks; a token
\* that starts with a symbolic character is the longest run of symbolic
\* characters. Both are of the kind Name, whose string is the source text
\* its span covers.
C22_NameClasses ==
    [][(AlphaAhead \/ SymAhead) =>
          /\ pc' = "lex"
          /\ line_tokens' =
                 Append(line_tokens,
                        Token(Name(SubSeq(Ahead, 1, NameRun)),
                              Span(Pos(line_idx, skip_ws(lexer).col_no + 1),
                                   Pos(line_idx,
                                       skip_ws(lexer).col_no + NameRun))))
          /\ Covered(line_tokens'[Len(line_tokens')].span)
                 = SubSeq(Ahead, 1, NameRun)
          /\ lexer'.chars = SubSeq(Ahead, NameRun + 1, Len(Ahead))
      ]_vars

\* C22 witness: the name a! and, right after it, the name +' were lexed.
C22_Witness ==
    /\ pc = "lex"
    /\ Kinds(line_tokens)
           = <<Name(Str(<<"a", "!">>)), Name(Str(<<"+", "'">>))>>
    /\ line_tokens[2].span.start.col = 3

(* ----------------------------------------------------------------------- *)
(* C23: unexpected characters                                              *)
(* ----------------------------------------------------------------------- *)

\* the separators
Punctuation ==
    { Ch("("), Ch(")"), Ch("["), Ch("]"), Ch("{"), Ch("}"), Ch(";") }

\* the lookahead is a character of no class
NoClassAhead ==
    /\ pc = "lex"
    /\ Lookahead # None
    /\ ~is_whitespace(Lookahead)
    /\ Lookahead \notin {Ch("'"), Ch("\"")}
    /\ ~is_ascii_digit(Lookahead)
    /\ ~is_alphabetic(Lookahead)
    /\ Lookahead # Ch("_")
    /\ Lookahead \notin Punctuation
    /\ Lookahead \notin SYM_CHARS

\* C23: a lookahead of no class (no whitespace, quote, digit, alphabetic
\* character, underscore, separator or symbolic character) gives
\* UnexpectedChar with a span of one character, the position of that
\* character, and the lexer is past the character when the error is
\* returned.
C23_UnexpectedChar ==
    [][NoClassAhead =>
          /\ pc' = "done"
          /\ result' =
                 ResultErr(
                     Error(UnexpectedChar,
                           Span(Pos(line_idx, skip_ws(lexer).col_no + 1),
                                Pos(line_idx, skip_ws(lexer).col_no + 1))))
          /\ lines[line_idx][skip_ws(lexer).col_no + 1] = Lookahead
          /\ lexer'.col_no = skip_ws(lexer).col_no + 1
          /\ lexer'.chars = Tail(Ahead)
      ]_vars

\* C23 witness: a character of no class in the middle of a line was
\* refused, the lexer is past it and the rest of the line is not read.
C23_Witness ==
    /\ ReturnedErr
    /\ result.err.kind = UnexpectedChar
    /\ result.err.span.start.col >= 2
    /\ Covered(result.err.span) = <<Ch("SECTION SIGN")>>
    /\ lexer.col_no = result.err.span.end.col
    /\ lexer.chars # <<>>

(* ----------------------------------------------------------------------- *)
(* C24: termination                                                        *)
(* ----------------------------------------------------------------------- *)

\* C24: lexing always ends. Every iteration of the loop of a line consumes
\* at least one character, returns an error or ends the line, and tokenize
\* goes from line to line, so that on every input, malformed or not, it
\* ends with the tokens or with an error.
C24_Terminates ==
    /\ [][/\ pc = "lex" =>
                \/ pc' = "lex" /\ Len(lexer'.chars) < Len(lexer.chars)
                \/ pc' = "done" /\ ReturnedErr'
                \/ pc' = "tokenize" /\ lexer'.chars = <<>>
          /\ pc = "tokenize" =>
                \/ pc' = "lex" /\ line_idx' = line_idx + 1
                \/ pc' = "done" /\ ReturnedOk'
        ]_vars
    /\ <>Done

\* C24 witness: lexing ended with an error on the second line, after a
\* token of the first line.
C24_Witness ==
    /\ Done
    /\ ReturnedErr
    /\ line_idx = 2
    /\ Len(tokens) >= 1

(* ----------------------------------------------------------------------- *)
(* C25: lines are lexed independently                                      *)
(* ----------------------------------------------------------------------- *)

\* line i lexed as a source of its own, where it is line 1
Alone(i) == LineLexer_tokenize(LineLexer_new(lines[i], 1), <<>>)

\* a span, a token, an error of line 1 moved to line i
SpanAt(span, i) ==
    Span(Pos(i, span.start.col), Pos(i, span.end.col))
TokensAt(toks, i) ==
    [k \in 1..Len(toks) |-> Token(toks[k].kind, SpanAt(toks[k].span, i))]

RECURSIVE AloneUpTo(_)
\* the tokens of the lines 1..n, each lexed alone and moved to its line
AloneUpTo(n) ==
    IF n = 0 THEN <<>>
    ELSE AloneUpTo(n - 1) \o TokensAt(Alone(n).val, n)

\* the first line that does not lex alone
FirstBadAlone ==
    CHOOSE k \in 1..Len(lines) :
        ~Alone(k).ok /\ \A j \in 1..(k - 1) : Alone(j).ok

\* the first line opens a literal that is not closed on it, and more lines
\* follow
OpenAtEndOfLine ==
    /\ Len(lines) >= 2
    /\ lines[1] # <<>>
    /\ lines[1][1] \in Quotes
    /\ Scan(lines[1], 2, lines[1][1], <<>>).how = "ended"

\* C25: lexing is independent per physical line. The result of tokenize is
\* the concatenation, in line order, of the lexing of each line alone, with
\* its 1-based line number, and the lexer of a line starts at column 0 with
\* nothing of the line before; a character or string literal open at the
\* end of its line gives UnterminatedCharOrStrLit and does not go on on the
\* next line.
C25_PerLine ==
    /\ [](Done =>
              IF \A i \in 1..Len(lines) : Alone(i).ok
              THEN result = [tag |-> "Ok", tokens |-> AloneUpTo(Len(lines))]
              ELSE result =
                       [tag |-> "Err",
                        err |-> Error(Alone(FirstBadAlone).err.kind,
                                      SpanAt(Alone(FirstBadAlone).err.span,
                                             FirstBadAlone))])
    /\ []((Done /\ OpenAtEndOfLine) =>
              result =
                  [tag |-> "Err",
                   err |-> Error(UnterminatedCharOrStrLit,
                                 Span(Pos(1, 1), Pos(1, Len(lines[1]))))])
    /\ [][(pc = "tokenize" /\ pc' = "lex") =>
              lexer' = [chars |-> lines[line_idx'], line_no |-> line_idx',
                        col_no |-> 0]
         ]_vars

(* ----------------------------------------------------------------------- *)
(* C26: the column counter                                                 *)
(* ----------------------------------------------------------------------- *)

\* the column is a column of a character of line l
ColumnOf(p, l) == p.line = l /\ p.col \in 1..Len(lines[l])

\* C26: in every state of the lexer of a line, col_no is the number of
\* characters consumed of the line so far, so that it is never more than
\* the length of the line, and every position of a token span or of an
\* error span has a column between 1 and the length of its line, on every
\* error path too, that of an escape sequence cut by the end of the line
\* right after \u included.
C26_ColumnCounter ==
    line_idx >= 1 =>
        /\ lexer.col_no + Len(lexer.chars) = Len(lines[line_idx])
        /\ lexer.col_no <= Len(lines[line_idx])
        /\ \A i \in 1..Len(line_tokens) :
               /\ ColumnOf(line_tokens[i].span.start, line_idx)
               /\ ColumnOf(line_tokens[i].span.end, line_idx)
        /\ ReturnedErr =>
               /\ ColumnOf(result.err.span.start, line_idx)
               /\ ColumnOf(result.err.span.end, line_idx)

(* ----------------------------------------------------------------------- *)
(* C27: two hyphens, two backslashes inside a token                        *)
(* ----------------------------------------------------------------------- *)

\* two hyphens or two backslashes are at the indices k, k + 1 of the text
PairAt(text, k) ==
    /\ k + 1 <= Len(text)
    /\ text[k] \in {Ch("-"), Ch("\\")}
    /\ text[k + 1] = text[k]

\* the source is one line that starts with a symbolic name begun by a
\* symbolic character, with a pair further inside the name
PairInName ==
    /\ OneLine
    /\ src # <<>>
    /\ src[1] \in SYM_CHARS \ {Ch("'")}
    /\ ~PairAt(src, 1)
    /\ \E k \in 2..Len(src) :
           PairAt(src, k) /\ k + 1 <= RunOf(src, LAMBDA c : c \in SYM_CHARS)

\* the source is one line that starts with a literal closed on the line,
\* with a pair between its quotes
PairInLiteral ==
    /\ LitLine
    /\ Lit.how = "closed"
    /\ \E k \in 2..(Lit.at - 2) : PairAt(src, k)

\* the first token of the line, and the index of its last character
FirstEnd ==
    IF PairInName THEN RunOf(src, LAMBDA c : c \in SYM_CHARS) ELSE Lit.at
FirstToken ==
    Token(IF PairInName THEN Name(SubSeq(src, 1, FirstEnd)) ELSE LitKind,
          Span(Pos(1, 1), Pos(1, FirstEnd)))

\* what follows the first token, lexed alone
RestAlone ==
    LineLexer_tokenize(
        LineLexer_new(SubSeq(src, FirstEnd + 1, Len(src)), 1), <<>>)

\* a span of the rest, at its columns in the line
SpanInLine(span) ==
    Span(Pos(1, span.start.col + FirstEnd), Pos(1, span.end.col + FirstEnd))

\* the result for the first token and the rest lexed after it
FirstThenRest ==
    IF RestAlone.ok
    THEN [tag |-> "Ok",
          tokens |->
              <<FirstToken>>
                  \o [k \in 1..Len(RestAlone.val) |->
                         Token(RestAlone.val[k].kind,
                               SpanInLine(RestAlone.val[k].span))]]
    ELSE [tag |-> "Err",
          err |-> Error(RestAlone.err.kind, SpanInLine(RestAlone.err.span))]

\* C27: two hyphens start a comment and two backslashes a raw string only
\* where a token starts. Inside a quoted string or character literal, and
\* inside a symbolic name begun by another symbolic character (+-- or
\* -+--), the pair is content of that token, and the rest of the line after
\* the token is lexed.
C27_PairInsideToken ==
    /\ (Done /\ PairInName) => result = FirstThenRest
    /\ (Done /\ PairInLiteral /\ LitHasKind) => result = FirstThenRest
    /\ (Done /\ PairInLiteral /\ ~LitHasKind) =>
           /\ ReturnedErr
           /\ result.err =
                  Error(MultipleCharsInCharLit,
                        Span(Pos(1, 1), Pos(1, Lit.at)))

\* C27 witness: the string literal of two hyphens, then the name a.
C27_Witness ==
    /\ ReturnedOk
    /\ PairInLiteral
    /\ Kinds(result.tokens)
           = <<StrLit(<<Ch("-"), Ch("-")>>), Name(<<Ch("a")>>)>>

(* ----------------------------------------------------------------------- *)
(* C28: the last character of a numeric literal                            *)
(* ----------------------------------------------------------------------- *)

\* the token is a numeric literal
IsNumLit(tok) == tok.kind.tag \in {"IntLit", "FloatLit"}

\* the base of the literal that starts at the column s of the text
LitBaseAt(text, s) ==
    IF s + 1 <= Len(text) /\ text[s] = Ch("0") /\ text[s + 1] \in Prefixes
    THEN BaseOf(text[s + 1])
    ELSE 10

\* the numeric literal ends with a digit of its base and holds one decimal
\* point at most
EndsWithDigit(tok) ==
    LET text == lines[tok.span.start.line]
        s    == tok.span.start.col
        e    == tok.span.end.col
    IN  /\ e \in s..Len(text)
        /\ DigitOf(text[e], LitBaseAt(text, s))
        /\ Cardinality({k \in s..e : text[k] = Ch(".")}) <= 1

\* C28: a numeric literal consumes its base prefix, its digits, the
\* underscores between them and at most one decimal point followed by
\* digits: the last character of the span of every IntLit and FloatLit is
\* a digit of the base of the literal, so that an underscore or a decimal
\* point after the last digit is left for the next token.
C28_LiteralEndsWithDigit ==
    /\ \A i \in 1..Len(line_tokens) :
           IsNumLit(line_tokens[i]) => EndsWithDigit(line_tokens[i])
    /\ \A i \in 1..Len(tokens) :
           IsNumLit(tokens[i]) => EndsWithDigit(tokens[i])

(* ----------------------------------------------------------------------- *)
(* C29: the position of a TokenStream                                      *)
(* ----------------------------------------------------------------------- *)

\* what peek(n) has to return: the token at the index pos + n of the
\* buffer, nothing when pos + n is no index of the buffer (n < 0 is written
\* for 2^64 + n, which is beyond every buffer)
TokenAhead(n) ==
    IF n >= 0 /\ stream.pos + n < Len(stream.buffer)
    THEN Some(stream.buffer[stream.pos + n + 1])
    ELSE NoToken

\* the position is within the buffer
PosInBuffer == stream.pos \in 0..Len(stream.buffer)

\* the last call was peek(n) and it returned the token at pos + n
PeekReturned == ret.op = "peek" => ret.val = TokenAhead(ret.n)

\* a call of next returns the token at pos and moves pos by one, or returns
\* nothing and leaves pos at the end of the buffer
NextInOrder ==
    ret'.op = "next" =>
        IF stream.pos < Len(stream.buffer)
        THEN /\ ret'.val = Some(stream.buffer[stream.pos + 1])
             /\ stream'.pos = stream.pos + 1
        ELSE /\ ret'.val = NoToken
             /\ stream'.pos = stream.pos

\* a call of peek changes nothing of the stream, and no call changes the
\* buffer
PeekKeeps ==
    /\ ret'.op = "peek" => stream' = stream
    /\ stream'.buffer = stream.buffer

\* C29: after any calls of peek, next and expect, 0 <= pos <= buffer.len();
\* next returns the tokens of the buffer in order, each once, and at
\* pos = buffer.len() it returns None and leaves pos; peek(n) returns the
\* token at the index pos + n, None when that is out of range, and changes
\* neither pos nor the buffer.
C29_StreamPosition ==
    /\ [](PosInBuffer /\ PeekReturned)
    /\ [][NextInOrder /\ PeekKeeps]_vars

(* ----------------------------------------------------------------------- *)
(* C30: expect                                                             *)
(* ----------------------------------------------------------------------- *)

\* a token is left in the stream
TokenLeft == stream.pos < Len(stream.buffer)

\* C30: expect(pred, err) returns Ok(token) exactly when a token is left
\* and pred holds of it, and Err(err) otherwise. It moves pos by exactly
\* one whenever a token is left, also when pred rejects the token and
\* Err(err) is returned, and it leaves pos only when no token is left.
C30_Expect ==
    [][ret'.op = "expect" =>
          /\ ret'.val =
                 IF TokenLeft /\ Holds(ret'.pred, stream.buffer[stream.pos + 1])
                 THEN ExpectOk(stream.buffer[stream.pos + 1])
                 ELSE ExpectErr(ret'.err)
          /\ stream'.pos = IF TokenLeft THEN stream.pos + 1 ELSE stream.pos
          /\ stream'.buffer = stream.buffer
      ]_vars

\* C30 witness: expect with a predicate for ( has met ), returned the
\* error and consumed the token.
C30_Witness ==
    /\ ret.op = "expect"
    /\ ret.pred = "is_lp"
    /\ ret.val = ExpectErr(ret.err)
    /\ stream.pos = 1
    /\ Len(stream.buffer) = 2
    /\ stream.buffer[1].kind = Rp

====
